---- MODULE Spec2Model ----
(***************************************************************************)
(* A model of the ownership/lifetime subsystem of nstd::memory:            *)
(* released_buffer (the transfer record), unique_buffer (the move-only     *)
(* handle), shared_buffer (the reference-counted handle with its control   *)
(* block) and MemPool (the pool of aligned fixed-size blocks); and of      *)
(* nstd::any (the type-erased container of one value).                     *)
(*                                                                         *)
(* Spec      : a single thread of control calling the handles' operations, *)
(*             each operation one atomic step (the whole member function). *)
(* UniqueSpec: the same, for the operations of unique_buffer alone.        *)
(* ThrowSpec : Spec's operations on buffers whose deleter throws.          *)
(* PoolSpec  : a MemPool and the unique_buffers it hands out.              *)
(* AlignmentSpec  : the pool of MemPoolTest.Alignment (128, 100, 3).       *)
(* PoolThreadsSpec: threads that each take a block from one pool and give  *)
(*             it back, one step per access to the free list, fairly       *)
(*             scheduled.                                                  *)
(* AnySpec   : a single thread calling the operations of nstd::any.        *)
(* ConcSpec  : several threads working on independent copies of one shared *)
(*             lineage, one step per atomic access to the control block.   *)
(***************************************************************************)
EXTENDS Integers, Sequences, FiniteSets, TLC

\* ----------------------------------------------------------------- bounds
\* Number of unique_buffer objects (slots) the program has.
NumUnique == 2
\* Number of shared_buffer objects (slots) the program has.
NumShared == 2
\* Number of raw buffers the environment ever allocates (fresh pointers).
MaxPtr == 1
\* The non-zero element count passed to constructors (besides 0).
MaxCount == 1
\* Number of threads working on one shared lineage.
NumThreads == 2
\* The largest block_count and block_size given to MemPool's constructor.
MaxBlocks == 2
MaxBlockSize == 2
\* Number of threads that allocate from one pool.
NumPoolThreads == 3
\* Number of nstd::any objects the program has.
NumAny == 2

UniqueIds == 1..NumUnique
\* The unique_buffer objects of a program that takes three blocks from a pool
\* (b1, b2, b3): the objects above and one more.
PoolHandles == 1..(NumUnique + 1)
SharedIds == 1..NumShared
Threads == 1..NumThreads
PoolThreads == 1..NumPoolThreads
AnyIds == 1..NumAny
\* The shared_buffer objects of one thread: the copy it was handed and one
\* more it copy-constructs from it.
Slots == {"a", "b"}
Ptrs == 1..MaxPtr
\* The heap addresses `new control_block` can return.  A freed address is
\* returned again; as every control block alive holds a buffer of its own,
\* MaxPtr addresses are all the code can need at once.
CtrlIds == 1..MaxPtr

\* nullptr, for data pointers and for ctrl_.
Null == 0

\* std::function<void(T*)> values: the empty function, a caller's deleter, and
\* the lambda of the self-allocating constructor.
NoDeleter == "none"
DefaultDeleter == "delete[]"
DeleterArgs == {NoDeleter, "delA"}
\* A deleter that frees the buffer and then throws.
ThrowingDeleter == "delThrow"
\* The lambda MemPool::allocate gives its buffers:
\* [this](T *p) { this->release_block(p); }
PoolDeleter == "release_block"

\* enum class MemoryLocation.  No code of the handles branches on the value:
\* Host is what every empty handle reports, and callers pass Device, so that a
\* location carried over is told from a location reset.
Host == "Host"
LocationArgs == {"Device"}

CountArgs == {0, MaxCount}

\* MemPool<T, Alignment>: the sizeof(T) and the Alignment of the pools built
\* (a char and a three-byte struct; alignments are powers of two), and the
\* constructor's arguments.
ElemSizes == {1, 3}
Alignments == {2, 4}
BlockSizeArgs == 0..MaxBlockSize
BlockCountArgs == 0..MaxBlocks
\* What std::aligned_alloc(Alignment, n) can return: a multiple of Alignment,
\* or a null pointer.
ArenaBases(align) == {0, align, 2 * align}

VARIABLES
  uq,       \* uq[u]: unique_buffer object u: live, data_, count_, location_, deleter_
  sh,       \* sh[h]: shared_buffer object h: live, ctrl_
  cb,       \* cb[c]: the heap's control block c
  recs,     \* the released_buffer values the caller holds
  calls,    \* calls[p]: the deleters invoked on pointer p, in order
  nptr,     \* how many raw buffers have been allocated
  last,     \* the last operation: its name, operands, what it saw and returned
  th,       \* th[t]: thread t: its shared_buffer objects and where it stands
  freed,    \* freed[c]: how many times `delete` was applied to control block c
  uaf,      \* whether a thread has accessed a control block after its delete
  pool,     \* the MemPool object: its members, its template arguments
  arenas,   \* the arenas std::aligned_alloc returned that were not freed
  pth,      \* pth[t]: a thread using the pool: where it stands, what it holds
  mtx,      \* MemPool::mtx_: the thread that holds it (0 when free)
  an,       \* an[a]: nstd::any object a: live, manager, the object in storage
  net,      \* contained objects constructed minus contained objects destroyed
  asg,      \* the call of shared_buffer's copy assignment that is under way
  life      \* what MemPool's last constructor call did to the elements and the arena

vars ==
  <<uq, sh, cb, recs, calls, nptr, last, th, freed, uaf, pool, arenas, pth, mtx,
    an, net, asg, life>>

\* What the threads add to the state.
conc == <<th, freed, uaf>>

\* What the pool's threads, the nstd::any objects, the statement-by-statement
\* run of the copy assignment and the pool's element type add to it.
aside == <<pth, mtx, an, net, asg, life>>

\* ------------------------------------------------------- released_buffer
released_buffer(p, c, d, loc) ==
  [ptr |-> p, count |-> c, deleter |-> d, location |-> loc]

\* released_buffer() = default
EmptyRecord == released_buffer(Null, 0, NoDeleter, Host)

\* std::optional<released_buffer<T>>
Some(rb) == [has |-> TRUE, val |-> rb]
NoValue == [has |-> FALSE, val |-> EmptyRecord]

\* ------------------------------------------------------------ the deleter
\* d(p): the call is logged; an empty std::function is never called by the
\* handles (they test it first).
\* (The log is of the deleters that free a buffer; the pool's deleter frees
\* nothing, what it does is release_block below.)
Invoke(log, d, p) == IF d = PoolDeleter THEN log ELSE [log EXCEPT ![p] = Append(@, d)]

\* Whether calling deleter d ends in an exception.
Raises(d) == d = ThrowingDeleter

\* `try { deleter(ptr); } catch (...) { }`: given whether the call raised,
\* whether an exception leaves the try block.
\* (Faulty variant: a call with no handler around it.)
catch_nothing(raised) == raised

catch_all(raised) == FALSE

\* Whether the guarded call of d lets an exception out, so that the
\* statements after it are not reached.
Escapes(d) == d # NoDeleter /\ catch_all(Raises(d))

\* ---------------------------------------------------------------- MemPool
\* The members of MemPool<T, Alignment>, with sizeof(T) (elem) and Alignment
\* (align); addresses are in bytes.  live says whether the object exists.
MemPool(bs, stride, bc, loc, data, free, elem, align) ==
  [live |-> TRUE, block_size |-> bs, stride |-> stride, block_count |-> bc,
   location |-> loc, data |-> data, free |-> free, elem |-> elem, align |-> align]

NoPool ==
  [live |-> FALSE, block_size |-> 0, stride |-> 0, block_count |-> 0,
   location |-> Host, data |-> Null, free |-> <<>>, elem |-> 1, align |-> 1]

\* void MemPool::release_block(T *p)
\* (Faulty variant: one that puts the block at the other end of the list.)
release_block_front(pl, p) == [pl EXCEPT !.free = <<p>> \o @]

release_block(pl, p) == [pl EXCEPT !.free = Append(@, p)]

\* What calling deleter d on p does to the pool.
deleter_effect(pl, d, p) == IF d = PoolDeleter THEN release_block(pl, p) ELSE pl

\* std::size_t is an unsigned type: its arithmetic is modulo 2^w.  The model
\* takes w = 8, wide enough for every size the other programs reach.
SizeModulus == 256

\* The stride, in elements, the constructor computes.
\* (Faulty variant: one that does not pad.)
stride_unpadded(bs, elem, align) == bs

stride_of(bs, elem, align) ==
  LET byte_size == (bs * elem) % SizeModulus
      aligned_byte_size ==
        ((((byte_size + align - 1) % SizeModulus) \div align) * align) % SizeModulus
  IN aligned_byte_size \div elem

\* size_t total_bytes = stride_ * sizeof(T) * block_count_: the size asked of
\* std::aligned_alloc.
total_bytes(stride, elem, bc) == (stride * elem * bc) % SizeModulus

\* The free list the constructor builds: block i at data_ + i * stride_.
\* (Faulty variant: one that lists the blocks from the last to the first.)
free_list_descending(data, stride, bc, elem) ==
  [i \in 1..bc |-> data + (bc - i) * stride * elem]

free_list(data, stride, bc, elem) ==
  [i \in 1..bc |-> data + (i - 1) * stride * elem]

\* MemPool(block_size, block_count, loc), given what aligned_alloc returns:
\* the object built, the exception thrown, if any, and the arena the call
\* obtained and did not free (null when it obtained none).
\* (Faulty variant: one that builds a pool of one block less.)
pool_construct_short(bs, bc, loc, elem, align, base) ==
  [err  |-> "none", arena |-> base,
   pool |-> MemPool(bs, stride_of(bs, elem, align), bc - 1, loc, base,
                    free_list(base, stride_of(bs, elem, align), bc - 1, elem),
                    elem, align)]

\* (Faulty variant: one that validates its arguments after the allocation.)
pool_construct_late_check(bs, bc, loc, elem, align, base) ==
  IF base = Null
    THEN [err |-> "bad_alloc", arena |-> Null, pool |-> NoPool]
  ELSE IF bs = 0 \/ bc = 0
    THEN [err |-> "invalid_argument", arena |-> base, pool |-> NoPool]
  ELSE [err  |-> "none", arena |-> base,
        pool |-> MemPool(bs, stride_of(bs, elem, align), bc, loc, base,
                         free_list(base, stride_of(bs, elem, align), bc, elem),
                         elem, align)]

pool_construct(bs, bc, loc, elem, align, base) ==
  IF bs = 0 \/ bc = 0
    THEN [err |-> "invalid_argument", arena |-> Null, pool |-> NoPool]
  ELSE IF base = Null
    THEN [err |-> "bad_alloc", arena |-> Null, pool |-> NoPool]
  ELSE [err  |-> "none", arena |-> base,
        pool |-> MemPool(bs, stride_of(bs, elem, align), bc, loc, base,
                         free_list(base, stride_of(bs, elem, align), bc, elem),
                         elem, align)]

\* An event in the life of the pool's elements and arena: the elements of a
\* block are default-constructed, the construction of a block fails (the
\* library function has destroyed the elements it had built in that block
\* before the exception leaves it), the elements of a block are destroyed,
\* the arena is freed (block 0 stands for the arena).
Ev(name, i) == [ev |-> name, block |-> i]

\* The construction loop for an element type that is not trivially
\* default-constructible: blocks 0, 1, ... in turn, until the block at index
\* fail (none when fail = bc) throws.
construct_blocks(bc, fail) ==
  [i \in 1..(IF fail < bc THEN fail + 1 ELSE bc) |->
     IF i - 1 = fail THEN Ev("throw", i - 1) ELSE Ev("construct", i - 1)]

\* The catch block's loop over the constructed_count blocks built before.
\* (Faulty variant: one that also destroys the block whose construction
\* failed.)
rollback_including_failed(constructed_count) ==
  [i \in 1..(constructed_count + 1) |-> Ev("destroy", i - 1)]

rollback(constructed_count) ==
  [i \in 1..constructed_count |-> Ev("destroy", i - 1)]

\* MemPool(block_size, block_count, loc) for such an element type: as
\* pool_construct, with the events of the call (life).
pool_construct_elements(bs, bc, loc, elem, align, base, fail) ==
  LET r == pool_construct(bs, bc, loc, elem, align, base) IN
  IF r.err # "none"
    THEN [err |-> r.err, arena |-> r.arena, pool |-> r.pool, life |-> <<>>]
  ELSE IF fail < bc
    THEN [err |-> "rethrown", arena |-> Null, pool |-> NoPool,
          life |-> construct_blocks(bc, fail) \o rollback(fail)
                     \o <<Ev("free", 0)>>]
  ELSE [err |-> "none", arena |-> r.arena, pool |-> r.pool,
        life |-> construct_blocks(bc, fail)]

\* unique_buffer<T> MemPool::allocate(): the pool afterwards, the members of
\* the buffer returned and the exception thrown, if any.
\* (Faulty variant: one that hands out a block it does not have.)
allocate_unchecked(pl) ==
  [err  |-> "none",
   pool |-> [pl EXCEPT !.free = SubSeq(@, 1, Len(@) - 1)],
   buf  |-> [live |-> TRUE,
             data |-> IF pl.free = <<>> THEN pl.data ELSE pl.free[Len(pl.free)],
             count |-> pl.block_size, location |-> pl.location,
             deleter |-> PoolDeleter]]

allocate(pl) ==
  IF pl.free = <<>>
    THEN [err |-> "runtime_error", pool |-> pl,
          buf |-> [live |-> FALSE, data |-> Null, count |-> 0,
                   location |-> Host, deleter |-> NoDeleter]]
    ELSE [err  |-> "none",
          pool |-> [pl EXCEPT !.free = SubSeq(@, 1, Len(@) - 1)],
          buf  |-> [live |-> TRUE, data |-> pl.free[Len(pl.free)],
                    count |-> pl.block_size, location |-> pl.location,
                    deleter |-> PoolDeleter]]

\* MemPool's observers.
capacity == pool.block_count
block_size == pool.block_size
available == Len(pool.free)

\* ---------------------------------------------------------- unique_buffer
UObj(live, p, c, loc, d) ==
  [live |-> live, data |-> p, count |-> c, location |-> loc, deleter |-> d]

\* buffer_base's and deleter_'s default member initialisers.
EmptyUnique == UObj(TRUE, Null, 0, Host, NoDeleter)
DeadUnique == UObj(FALSE, Null, 0, Host, NoDeleter)

\* unique_buffer::reset(): the deleter log after it ...
\* (Faulty variant: one that never calls the deleter.)
unique_reset_calls_skip(b, log) == log

unique_reset_calls(b, log) ==
  IF b.data # Null /\ b.deleter # NoDeleter
    THEN Invoke(log, b.deleter, b.data)
    ELSE log

\* ... the pool after it ...
\* (Faulty variant: one that never gives the block back.)
unique_reset_pool_skip(b, pl) == pl

unique_reset_pool(b, pl) ==
  IF b.data # Null /\ b.deleter # NoDeleter
    THEN deleter_effect(pl, b.deleter, b.data)
    ELSE pl

\* ... and the object after it.
unique_reset_obj(b) ==
  IF b.data # Null
    THEN IF Escapes(b.deleter) THEN b ELSE UObj(b.live, Null, 0, Host, NoDeleter)
    ELSE UObj(b.live, b.data, b.count, b.location, NoDeleter)

\* unique_buffer::release(): the record returned and the object left.
\* (Faulty variant of the record: one that forgets the location.)
unique_release_rec_host(b) == released_buffer(b.data, b.count, b.deleter, Host)

unique_release_rec(b) == released_buffer(b.data, b.count, b.deleter, b.location)

\* (Faulty variant of the object left: one that keeps its members.)
unique_release_obj_keep(b) == b

unique_release_obj(b) == UObj(b.live, Null, 0, Host, NoDeleter)

\* unique_buffer::steal_from(other): this and other afterwards.
\* (Faulty variant: one that leaves the source as it was.)
steal_from_keep(this, other) ==
  [this  |-> UObj(this.live, other.data, other.count, other.location, other.deleter),
   other |-> other]

steal_from(this, other) ==
  [this  |-> UObj(this.live, other.data, other.count, other.location, other.deleter),
   other |-> UObj(other.live, Null, 0, Host, NoDeleter)]

\* operator=(unique_buffer&& other) on two different objects: reset(), then
\* steal_from(std::move(other)); this and other afterwards.
\* (Faulty variant: one that steals first and resets what it stole.)
unique_assign_steal_first(this, other) ==
  LET r == steal_from(this, other) IN
  [this |-> unique_reset_obj(r.this), other |-> r.other]

unique_assign(this, other) == steal_from(unique_reset_obj(this), other)

\* unique_buffer::swap(other): this and other afterwards.
\* (Faulty variant: one that leaves the deleters where they were.)
unique_swap_members_no_deleter(this, other) ==
  [this  |-> UObj(this.live, other.data, other.count, other.location, this.deleter),
   other |-> UObj(other.live, this.data, this.count, this.location, other.deleter)]

unique_swap_members(this, other) ==
  [this  |-> UObj(this.live, other.data, other.count, other.location, other.deleter),
   other |-> UObj(other.live, this.data, this.count, this.location, this.deleter)]

\* Observers of unique_buffer / buffer_base.
unique_bool(u) == uq[u].data # Null
unique_get(u) == uq[u].data
unique_size(u) == uq[u].count
unique_location(u) == uq[u].location
unique_state(u) ==
  released_buffer(uq[u].data, uq[u].count, uq[u].deleter, uq[u].location)

\* ---------------------------------------------------------- shared_buffer
SObj(live, c) == [live |-> live, ctrl |-> c]

\* control_block; alloc says whether the address holds a block.
\* (Faulty variant of the constructor: one that drops the deleter.)
control_block_no_deleter(p, c, d, loc) ==
  [alloc |-> TRUE, ref |-> 1, ptr |-> p, size |-> c,
   deleter |-> NoDeleter, location |-> loc]

NoBlock ==
  [alloc |-> FALSE, ref |-> 0, ptr |-> Null, size |-> 0,
   deleter |-> NoDeleter, location |-> Host]

control_block(p, c, d, loc) ==
  [alloc |-> TRUE, ref |-> 1, ptr |-> p, size |-> c,
   deleter |-> d, location |-> loc]

\* The address `new control_block` returns: the lowest one holding no block
\* (Null when the model's heap is exhausted).
FreshCtrl(blocks) ==
  IF \E c \in CtrlIds : ~blocks[c].alloc
    THEN CHOOSE c \in CtrlIds : ~blocks[c].alloc /\ \A e \in 1..(c - 1) : blocks[e].alloc
    ELSE Null

\* The handles, the heap and the deleter log, as the member functions below
\* transform them.
St(handles, blocks, log) == [sh |-> handles, cb |-> blocks, calls |-> log]

\* std::atomic<std::size_t>::fetch_add / fetch_sub / compare_exchange_strong
\* on ctrl->ref.  (ref is a size_t; it never goes below 0 in a run of the
\* code because only a handle that holds a reference decrements it.)
\* (Faulty variant of fetch_add: an increment that is lost.)
fetch_add_lost(blocks, c, n) == blocks

fetch_add(blocks, c, n) == [blocks EXCEPT ![c].ref = @ + n]

fetch_sub(blocks, c, n) == [blocks EXCEPT ![c].ref = @ - n]

\* (Faulty variant of the compare-and-swap: one that always succeeds.)
compare_exchange_always(blocks, c, expected, desired) ==
  [ok |-> TRUE, cb |-> [blocks EXCEPT ![c].ref = desired]]

compare_exchange_strong(blocks, c, expected, desired) ==
  IF blocks[c].ref = expected
    THEN [ok |-> TRUE, cb |-> [blocks EXCEPT ![c].ref = desired]]
    ELSE [ok |-> FALSE, cb |-> blocks]

\* `delete ctrl_`: the block's members are gone with it.
delete_block(blocks, c) == [blocks EXCEPT ![c] = NoBlock]

\* The last-owner branch of release_ctrl: call the deleter if set, then delete
\* the block.  (Faulty variant: one that deletes the block only.)
teardown_no_deleter(S, c) ==
  St(S.sh, delete_block(S.cb, c), S.calls)

teardown(S, c) ==
  IF S.cb[c].deleter # NoDeleter
    THEN St(S.sh,
            IF Escapes(S.cb[c].deleter) THEN S.cb ELSE delete_block(S.cb, c),
            Invoke(S.calls, S.cb[c].deleter, S.cb[c].ptr))
    ELSE St(S.sh, delete_block(S.cb, c), S.calls)

\* Whether the decrement that saw `prev` was the last owner's.
\* (Faulty variant: one that is off by one.)
was_last_owner_early(prev) == prev <= 2

was_last_owner(prev) == prev = 1

\* shared_buffer::release_ctrl() on handle h.
release_ctrl(S, h) ==
  LET c == S.sh[h].ctrl IN
  IF c = Null THEN S
  ELSE
    LET prev == S.cb[c].ref
        D == St(S.sh, fetch_sub(S.cb, c, 1), S.calls)
        T == IF was_last_owner(prev) THEN teardown(D, c) ELSE D
    IN IF was_last_owner(prev) /\ Escapes(S.cb[c].deleter)
         THEN T
         ELSE St([T.sh EXCEPT ![h].ctrl = Null], T.cb, T.calls)

\* What release_ctrl() on handle h does to the pool: the last owner calls the
\* block's deleter, which for a buffer of the pool is release_block.
release_ctrl_pool(S, h, pl) ==
  LET c == S.sh[h].ctrl IN
  IF c # Null /\ was_last_owner(S.cb[c].ref) /\ S.cb[c].deleter # NoDeleter
    THEN deleter_effect(pl, S.cb[c].deleter, S.cb[c].ptr)
    ELSE pl

\* shared_buffer(ptr, size, deleter, loc) on handle h; c is the block `new`
\* returns should the constructor allocate.
\* (Faulty variant: one without the test for an empty buffer.)
shared_construct_unchecked(S, h, c, p, n, d, loc) ==
  St([S.sh EXCEPT ![h] = SObj(TRUE, c)],
     [S.cb EXCEPT ![c] = control_block(p, n, d, loc)],
     S.calls)

shared_construct(S, h, c, p, n, d, loc) ==
  IF p = Null \/ n = 0
    THEN St([S.sh EXCEPT ![h] = SObj(TRUE, Null)], S.cb, S.calls)
    ELSE St([S.sh EXCEPT ![h] = SObj(TRUE, c)],
            [S.cb EXCEPT ![c] = control_block(p, n, d, loc)],
            S.calls)

\* Whether that constructor allocates.
shared_construct_allocates(p, n) == ~(p = Null \/ n = 0)

\* shared_buffer(const shared_buffer& other) building h from o.
\* (Faulty variant: one that forgets the increment.)
shared_copy_no_increment(S, h, o) ==
  St([S.sh EXCEPT ![h] = SObj(TRUE, S.sh[o].ctrl)], S.cb, S.calls)

shared_copy(S, h, o) ==
  LET c == S.sh[o].ctrl IN
  St([S.sh EXCEPT ![h] = SObj(TRUE, c)],
     IF c # Null THEN fetch_add(S.cb, c, 1) ELSE S.cb,
     S.calls)

\* operator=(const shared_buffer& other), h = o: what it does to the pool
\* (release_ctrl() runs after the increment) ...
shared_copy_assign_pool(S, h, o, pl) ==
  IF h = o THEN pl
  ELSE
    LET new_ctrl == S.sh[o].ctrl
        A == St(S.sh,
                IF new_ctrl # Null THEN fetch_add(S.cb, new_ctrl, 1) ELSE S.cb,
                S.calls)
    IN release_ctrl_pool(A, h, pl)

\* ... and to the handles, the heap and the deleter log.
shared_copy_assign(S, h, o) ==
  IF h = o THEN S
  ELSE
    LET new_ctrl == S.sh[o].ctrl
        A == St(S.sh,
                IF new_ctrl # Null THEN fetch_add(S.cb, new_ctrl, 1) ELSE S.cb,
                S.calls)
        R == release_ctrl(A, h)
    IN St([R.sh EXCEPT ![h].ctrl = new_ctrl], R.cb, R.calls)

\* shared_buffer(shared_buffer&& other) building h from o.
\* (Faulty variant: one that counts the move as a copy.)
shared_move_counting(S, h, o) ==
  LET c == S.sh[o].ctrl IN
  St([S.sh EXCEPT ![h] = SObj(TRUE, c), ![o].ctrl = Null],
     IF c # Null THEN fetch_add(S.cb, c, 1) ELSE S.cb,
     S.calls)

shared_move(S, h, o) ==
  St([S.sh EXCEPT ![h] = SObj(TRUE, S.sh[o].ctrl), ![o].ctrl = Null],
     S.cb, S.calls)

\* operator=(shared_buffer&& other): h = std::move(o).
\* (Faulty variant: one without the self-assignment test.)
shared_move_assign_no_guard(S, h, o) ==
  LET R == release_ctrl(S, h) IN
  St([R.sh EXCEPT ![h].ctrl = R.sh[o].ctrl, ![o].ctrl = Null], R.cb, R.calls)

shared_move_assign(S, h, o) ==
  IF h # o
    THEN LET R == release_ctrl(S, h) IN
         St([R.sh EXCEPT ![h].ctrl = R.sh[o].ctrl, ![o].ctrl = Null], R.cb, R.calls)
    ELSE S

\* shared_buffer::release() on handle h: the state after it and what it returns.
\* (Faulty variants: one that tests uniqueness by decrementing and leaves the
\* count decremented when it fails, one that forgets `delete ctrl_`.)
shared_release_by_decrement(S, h) ==
  LET c == S.sh[h].ctrl IN
  IF c = Null THEN [st |-> S, ret |-> NoValue]
  ELSE
    LET prev == S.cb[c].ref
        D == fetch_sub(S.cb, c, 1)
    IN
    IF prev # 1 THEN [st |-> St(S.sh, D, S.calls), ret |-> NoValue]
    ELSE [st  |-> St([S.sh EXCEPT ![h].ctrl = Null], delete_block(D, c), S.calls),
          ret |-> Some(released_buffer(S.cb[c].ptr, S.cb[c].size,
                                       S.cb[c].deleter, S.cb[c].location))]

shared_release_keep_block(S, h) ==
  LET c == S.sh[h].ctrl IN
  IF c = Null THEN [st |-> S, ret |-> NoValue]
  ELSE
    LET x == compare_exchange_strong(S.cb, c, 1, 0) IN
    IF ~x.ok THEN [st |-> S, ret |-> NoValue]
    ELSE [st  |-> St([S.sh EXCEPT ![h].ctrl = Null], x.cb, S.calls),
          ret |-> Some(released_buffer(S.cb[c].ptr, S.cb[c].size,
                                       S.cb[c].deleter, S.cb[c].location))]

shared_release(S, h) ==
  LET c == S.sh[h].ctrl IN
  IF c = Null THEN [st |-> S, ret |-> NoValue]
  ELSE
    LET x == compare_exchange_strong(S.cb, c, 1, 0) IN
    IF ~x.ok THEN [st |-> S, ret |-> NoValue]
    ELSE [st  |-> St([S.sh EXCEPT ![h].ctrl = Null],
                     delete_block(x.cb, c),
                     S.calls),
          ret |-> Some(released_buffer(S.cb[c].ptr, S.cb[c].size,
                                       S.cb[c].deleter, S.cb[c].location))]

\* shared_buffer::reset() on handle h.
shared_reset(S, h) ==
  LET R == release_ctrl(S, h) IN
  St([R.sh EXCEPT ![h].ctrl = Null], R.cb, R.calls)

\* shared_buffer::swap(other).
shared_swap(S, h, o) ==
  St([S.sh EXCEPT ![h].ctrl = S.sh[o].ctrl, ![o].ctrl = S.sh[h].ctrl],
     S.cb, S.calls)

\* Observers of shared_buffer.
shared_bool(h) == sh[h].ctrl # Null
shared_data(h) == IF sh[h].ctrl # Null THEN cb[sh[h].ctrl].ptr ELSE Null
shared_size(h) == IF sh[h].ctrl # Null THEN cb[sh[h].ctrl].size ELSE 0
shared_location(h) == IF sh[h].ctrl # Null THEN cb[sh[h].ctrl].location ELSE Host
use_count(h) == IF sh[h].ctrl # Null THEN cb[sh[h].ctrl].ref ELSE 0
shared_deleter(h) == IF sh[h].ctrl # Null THEN cb[sh[h].ctrl].deleter ELSE NoDeleter
shared_state(h) ==
  released_buffer(shared_data(h), shared_size(h), shared_deleter(h), shared_location(h))

\* -------------------------------------------------------------- nstd::any
\* The types put into an any: a small copyable one (int), one whose copy
\* constructor is deleted (MoveOnly, std::unique_ptr) and one whose copy
\* constructor throws (ThrowingCopy).  typeid(void) is what type() reports for
\* an empty any.
AnyTypes == {"int", "MoveOnly", "ThrowingCopy"}
Void == "void"
\* The values of a contained object (a ThrowingCopy has no members: all its
\* objects are equal).
AnyValues == {1, 2}
ValuesOf(T) == IF T = "ThrowingCopy" THEN {1} ELSE AnyValues

\* std::is_copy_constructible_v<T>, and whether T's copy constructor throws.
is_copy_constructible(T) == T # "MoveOnly"
copy_throws(T) == T = "ThrowingCopy"

\* How a value reaches Create: copied from an lvalue, or moved from an rvalue
\* (building it in place from arguments goes the same way as a move: none of
\* the types throws then).  Copying a MoveOnly does not compile.
Ways(T) == IF is_copy_constructible(T) THEN {"copy", "move"} ELSE {"move"}

\* A contained object, and a storage that holds none.
Obj(T, v) == [type |-> T, val |-> v]
NoObj == [type |-> Void, val |-> 0]

\* An any object: manager is null or &ManagerImpl<T>::Manage (written T);
\* obj is the object living in `storage`.
NoManager == "nullptr"
AnyObj(live, manager, obj) == [live |-> live, manager |-> manager, obj |-> obj]
EmptyAny == AnyObj(TRUE, NoManager, NoObj)
DeadAny == AnyObj(FALSE, NoManager, NoObj)

\* The temporary `any(rhs)` of the assignment operators, and swap's `any tmp`.
Temp == 0
SwapTmp == NumAny + 1
AnyObjects == AnyIds \cup {Temp, SwapTmp}

\* The any objects, the count of contained objects alive and the exception
\* thrown, as the member functions below transform them.
World(objs, n, err) == [an |-> objs, net |-> n, err |-> err]

\* bool any::has_value()
has_value(x) == x.manager # NoManager

\* ManagerImpl<T>::Create(storage, ...) and Destroy(storage), on any a.
Create(W, a, T, v) == [W EXCEPT !.an[a].obj = Obj(T, v), !.net = @ + 1]

Destroy(W, a) == [W EXCEPT !.an[a].obj = NoObj, !.net = @ - 1]

\* Manage(Op::Clone, src, arg) with arg.any_ptr = dst.
\* (Faulty variant: one that copies whatever the type.)
Clone_any_type(W, src, dst) ==
  LET T == W.an[src].manager IN
  [Create(W, dst, T, W.an[src].obj.val) EXCEPT !.an[dst].manager = T]

Clone(W, src, dst) ==
  LET T == W.an[src].manager IN
  IF is_copy_constructible(T)
    THEN IF copy_throws(T)
           THEN [W EXCEPT !.err = "runtime_error"]
           ELSE [Create(W, dst, T, W.an[src].obj.val) EXCEPT !.an[dst].manager = T]
    ELSE [W EXCEPT !.err = "logic_error"]

\* Manage(Op::Xfer, src, arg) with arg.any_ptr = dst.
\* (Faulty variant: one that leaves the source's manager set.)
Xfer_keep_manager(W, src, dst) ==
  LET T == W.an[src].manager
      W1 == [Create(W, dst, T, W.an[src].obj.val) EXCEPT !.an[dst].manager = T]
  IN Destroy(W1, src)

Xfer(W, src, dst) ==
  LET T == W.an[src].manager
      W1 == [Create(W, dst, T, W.an[src].obj.val) EXCEPT !.an[dst].manager = T]
  IN [Destroy(W1, src) EXCEPT !.an[src].manager = NoManager]

\* void any::reset()
\* (Faulty variant: one that forgets the object without destroying it.)
any_reset_no_destroy(W, a) == [W EXCEPT !.an[a].manager = NoManager]

any_reset(W, a) ==
  IF has_value(W.an[a])
    THEN [Destroy(W, a) EXCEPT !.an[a].manager = NoManager]
    ELSE W

\* ~any()
any_destroy(W, a) == [any_reset(W, a) EXCEPT !.an[a] = DeadAny]

\* any(const any &other), constructing a; an exception leaves no object a.
any_copy_construct(W, a, o) ==
  LET W0 == [W EXCEPT !.an[a] = EmptyAny] IN
  IF has_value(W.an[o])
    THEN LET W1 == Clone(W0, o, a) IN
         IF W1.err # "none" THEN [W1 EXCEPT !.an[a] = DeadAny] ELSE W1
    ELSE W0

\* any(any &&other), constructing a.
any_move_construct(W, a, o) ==
  LET W0 == [W EXCEPT !.an[a] = EmptyAny] IN
  IF has_value(W.an[o]) THEN Xfer(W0, o, a) ELSE W0

\* T &any::emplace<T>(args...): the value reaches Create in way `how`.
any_emplace(W, a, T, v, how) ==
  LET W1 == any_reset(W, a) IN
  IF how = "copy" /\ copy_throws(T)
    THEN [W1 EXCEPT !.err = "runtime_error"]
    ELSE [Create(W1, a, T, v) EXCEPT !.an[a].manager = T]

\* any(T &&value) and any(std::in_place_type_t<T>, args...), constructing a.
any_value_construct(W, a, T, v, how) ==
  LET W1 == any_emplace([W EXCEPT !.an[a] = EmptyAny], a, T, v, how) IN
  IF W1.err # "none" THEN [W1 EXCEPT !.an[a] = DeadAny] ELSE W1

\* void any::swap(any &other), called on a.
any_swap(W, a, o) ==
  IF ~has_value(W.an[a]) /\ ~has_value(W.an[o]) THEN W
  ELSE IF has_value(W.an[a]) /\ has_value(W.an[o])
    THEN IF a = o THEN W
         ELSE LET W0 == [W EXCEPT !.an[SwapTmp] = EmptyAny]
                  W1 == Xfer(W0, a, SwapTmp)
                  W2 == Xfer(W1, o, a)
                  W3 == Xfer(W2, SwapTmp, o)
              IN any_destroy(W3, SwapTmp)
  ELSE LET empty == IF ~has_value(W.an[a]) THEN a ELSE o
           full == IF ~has_value(W.an[a]) THEN o ELSE a
       IN Xfer(W, full, empty)

\* any &operator=(const any &rhs): any(rhs).swap(*this)
\* (Faulty variant: one that resets *this and clones into it.)
any_copy_assign_in_place(W, a, o) ==
  IF has_value(W.an[o]) THEN Clone(any_reset(W, a), o, a) ELSE any_reset(W, a)

any_copy_assign(W, a, o) ==
  LET W1 == any_copy_construct(W, Temp, o) IN
  IF W1.err # "none" THEN W1 ELSE any_destroy(any_swap(W1, Temp, a), Temp)

\* any &operator=(any &&rhs): any(std::move(rhs)).swap(*this)
any_move_assign(W, a, o) ==
  any_destroy(any_swap(any_move_construct(W, Temp, o), Temp, a), Temp)

\* any &operator=(T &&rhs): any(std::forward<T>(rhs)).swap(*this)
any_value_assign(W, a, T, v, how) ==
  LET W1 == any_value_construct(W, Temp, T, v, how) IN
  IF W1.err # "none" THEN W1 ELSE any_destroy(any_swap(W1, Temp, a), Temp)

\* const std::type_info &any::type()
any_type(x) == IF has_value(x) THEN x.manager ELSE Void

\* The last operation: its name, the object it ran on (dst), its other
\* operand (src), what it returned (ret), whether it called a deleter (ran),
\* whether that deleter's exception got out (threw) and the exception the
\* operation itself ended in (err).
Op(name, dst, src, ret) ==
  [op |-> name, dst |-> dst, src |-> src, ret |-> ret,
   ran |-> (calls' # calls \/ (pool.live /\ Len(pool'.free) > Len(pool.free))),
   threw |-> \E p \in Ptrs : /\ calls'[p] # calls[p]
                              /\ Escapes(calls'[p][Len(calls'[p])]),
   err |-> "none"]

\* The same for a call that ended in the exception err.
OpErr(name, dst, src, err) == [Op(name, dst, src, NoValue) EXCEPT !.err = err]

\* A thread: its shared_buffer objects hs, the member function it is in (pc),
\* the object that function is called on (x), whether the call is the
\* destructor (dying) and the fields release() has read so far (rec); and for
\* release_ctrl() called by an assignment operator, which one (cont) and its
\* argument (other).
Thread(hs, pc, x, dying, rec) ==
  [hs |-> hs, pc |-> pc, x |-> x, dying |-> dying, rec |-> rec,
   cont |-> "return", other |-> "a"]

\* A thread that has not been started.
NoThread ==
  Thread([s \in Slots |-> SObj(FALSE, Null)], "idle", "a", FALSE, EmptyRecord)

\* A thread that uses the pool: where it stands (pc), the block pointer it
\* read from the free list (ptr), the unique_buffer it holds (buf) and how its
\* call of allocate() ended (err).
PoolThread(pc, ptr, buf, err) == [pc |-> pc, ptr |-> ptr, buf |-> buf, err |-> err]

NoPoolThread == PoolThread("idle", Null, DeadUnique, "none")

\* std::mutex: unlocked, or locked by a thread.
Unlocked == 0

\* A call of operator=(const shared_buffer&) under way: the statement it is
\* at (pc, 0 when no call is under way), this and other, the local new_ctrl,
\* whether new_ctrl's count has been incremented, and the handles, the heap
\* and the deleter log as they were when the call was made.
Assign(pc, this, other, new_ctrl, added, before) ==
  [pc |-> pc, this |-> this, other |-> other, new_ctrl |-> new_ctrl,
   added |-> added, before |-> before]

NoAssign ==
  Assign(0, 0, 0, Null, FALSE,
         St([h \in SharedIds |-> SObj(FALSE, Null)], [c \in CtrlIds |-> NoBlock],
            [p \in Ptrs |-> <<>>]))

\* ------------------------------------------------------------------ Init
Init ==
  /\ uq = [u \in PoolHandles |-> DeadUnique]
  /\ sh = [h \in SharedIds |-> SObj(FALSE, Null)]
  /\ cb = [c \in CtrlIds |-> NoBlock]
  /\ recs = {}
  /\ calls = [p \in Ptrs |-> <<>>]
  /\ nptr = 0
  /\ last = [op |-> "init", dst |-> 0, src |-> 0, ret |-> NoValue, ran |-> FALSE,
             threw |-> FALSE, err |-> "none"]
  /\ th = [t \in Threads |-> NoThread]
  /\ freed = [c \in CtrlIds |-> 0]
  /\ uaf = FALSE
  /\ pool = NoPool
  /\ arenas = {}
  /\ pth = [t \in PoolThreads |-> NoPoolThread]
  /\ mtx = Unlocked
  /\ an = [a \in AnyObjects |-> DeadAny]
  /\ net = 0
  /\ asg = NoAssign
  /\ life = <<>>

\* A released_buffer whose pointer is null carries nothing to manage: the
\* caller keeps only the records that hold a buffer ...
Keep(rs, rb) == IF rb.ptr # Null THEN rs \cup {rb} ELSE rs

\* ... and can build a null record itself (released_buffer is a plain struct).
NullRecords ==
  {released_buffer(Null, 0, d, loc) : d \in DeleterArgs, loc \in LocationArgs}

RecordArgs == recs \cup NullRecords

\* The pointers a caller can pass to an adopting constructor: nullptr, or the
\* buffer it has just allocated (the next fresh pointer).
PtrArgs == {Null} \cup (IF nptr < MaxPtr THEN {nptr + 1} ELSE {})

Allocated(p) == IF p = Null THEN nptr ELSE p

\* ------------------------------------------------- unique_buffer's actions
\* unique_buffer() noexcept = default
unique_default_ctor(u) ==
  /\ ~uq[u].live
  /\ uq' = [uq EXCEPT ![u] = EmptyUnique]
  /\ UNCHANGED <<sh, cb, recs, calls, nptr>>
  /\ UNCHANGED <<conc, aside, arenas>>
  /\ UNCHANGED pool
  /\ last' = Op("unique_default_ctor", u, 0, NoValue)

\* unique_buffer(size_type count, MemoryLocation loc): new T[count] returns a
\* fresh non-null pointer, also for count = 0.
unique_alloc_ctor(u, n, loc) ==
  /\ ~uq[u].live
  /\ nptr < MaxPtr
  /\ nptr' = nptr + 1
  /\ uq' = [uq EXCEPT ![u] = UObj(TRUE, nptr + 1, n, loc, DefaultDeleter)]
  /\ UNCHANGED <<sh, cb, recs, calls>>
  /\ UNCHANGED <<conc, aside, arenas>>
  /\ UNCHANGED pool
  /\ last' = Op("unique_alloc_ctor", u, 0, NoValue)

\* unique_buffer(pointer ptr, size_type count, deleter_type deleter, loc);
\* ptr may be nullptr only if count == 0.
unique_adopt_ctor(u, p, n, d, loc) ==
  /\ ~uq[u].live
  /\ p = Null => n = 0
  /\ nptr' = Allocated(p)
  /\ uq' = [uq EXCEPT ![u] = UObj(TRUE, p, n, loc, d)]
  /\ UNCHANGED <<sh, cb, recs, calls>>
  /\ UNCHANGED <<conc, aside, arenas>>
  /\ UNCHANGED pool
  /\ last' = Op("unique_adopt_ctor", u, 0, NoValue)

\* explicit unique_buffer(released_buffer<T> rb): the caller hands over rb.
unique_from_record(u, rb) ==
  /\ ~uq[u].live
  /\ rb \in RecordArgs
  /\ recs' = recs \ {rb}
  /\ uq' = [uq EXCEPT ![u] = UObj(TRUE, rb.ptr, rb.count, rb.location, rb.deleter)]
  /\ UNCHANGED <<sh, cb, calls, nptr>>
  /\ UNCHANGED <<conc, aside, arenas>>
  /\ UNCHANGED pool
  /\ last' = Op("unique_from_record", u, 0, Some(rb))

\* unique_buffer(unique_buffer&& other)
unique_move_ctor(u, o) ==
  /\ ~uq[u].live
  /\ uq[o].live
  /\ LET r == steal_from(EmptyUnique, uq[o]) IN
       uq' = [uq EXCEPT ![u] = r.this, ![o] = r.other]
  /\ UNCHANGED <<sh, cb, recs, calls, nptr>>
  /\ UNCHANGED <<conc, aside, arenas>>
  /\ UNCHANGED pool
  /\ last' = Op("unique_move_ctor", u, o, NoValue)

\* unique_buffer& operator=(unique_buffer&& other)
unique_move_assign(u, o) ==
  /\ uq[u].live
  /\ uq[o].live
  /\ IF u # o
       THEN LET r == unique_assign(uq[u], uq[o]) IN
            /\ uq' = [uq EXCEPT ![u] = r.this, ![o] = r.other]
            /\ calls' = unique_reset_calls(uq[u], calls)
       ELSE UNCHANGED <<uq, calls>>
  /\ UNCHANGED <<sh, cb, recs, nptr>>
  /\ UNCHANGED <<conc, aside, arenas>>
  /\ pool' = IF u # o THEN unique_reset_pool(uq[u], pool) ELSE pool
  /\ last' = Op("unique_move_assign", u, o, NoValue)

\* ~unique_buffer()
unique_dtor(u) ==
  /\ uq[u].live
  /\ uq' = [uq EXCEPT ![u] = DeadUnique]
  /\ calls' = unique_reset_calls(uq[u], calls)
  /\ UNCHANGED <<sh, cb, recs, nptr>>
  /\ UNCHANGED <<conc, aside, arenas>>
  /\ pool' = unique_reset_pool(uq[u], pool)
  /\ last' = Op("unique_dtor", u, 0, NoValue)

\* released_buffer<T> unique_buffer::release()
unique_release(u) ==
  /\ uq[u].live
  /\ uq' = [uq EXCEPT ![u] = unique_release_obj(uq[u])]
  /\ recs' = Keep(recs, unique_release_rec(uq[u]))
  /\ UNCHANGED <<sh, cb, calls, nptr>>
  /\ UNCHANGED <<conc, aside, arenas>>
  /\ UNCHANGED pool
  /\ last' = Op("unique_release", u, 0, Some(unique_release_rec(uq[u])))

\* void unique_buffer::reset()
unique_reset(u) ==
  /\ uq[u].live
  /\ uq' = [uq EXCEPT ![u] = unique_reset_obj(uq[u])]
  /\ calls' = unique_reset_calls(uq[u], calls)
  /\ UNCHANGED <<sh, cb, recs, nptr>>
  /\ UNCHANGED <<conc, aside, arenas>>
  /\ pool' = unique_reset_pool(uq[u], pool)
  /\ last' = Op("unique_reset", u, 0, NoValue)

\* void unique_buffer::swap(unique_buffer& other)
unique_swap(u, o) ==
  /\ uq[u].live
  /\ uq[o].live
  /\ LET r == unique_swap_members(uq[u], uq[o]) IN
       uq' = [uq EXCEPT ![u] = r.this, ![o] = r.other]
  /\ UNCHANGED <<sh, cb, recs, calls, nptr>>
  /\ UNCHANGED <<conc, aside, arenas>>
  /\ UNCHANGED pool
  /\ last' = Op("unique_swap", u, o, NoValue)

\* The holder of a released_buffer discharges it: rb.deleter(rb.ptr) when the
\* deleter is set (it frees the memory by other means when it is not).
record_dispose(rb) ==
  /\ rb \in recs
  /\ recs' = recs \ {rb}
  /\ calls' = IF rb.ptr # Null /\ rb.deleter # NoDeleter
                THEN Invoke(calls, rb.deleter, rb.ptr)
                ELSE calls
  /\ UNCHANGED <<uq, sh, cb, nptr>>
  /\ UNCHANGED <<conc, aside, arenas>>
  /\ pool' = IF rb.ptr # Null /\ rb.deleter # NoDeleter
               THEN deleter_effect(pool, rb.deleter, rb.ptr)
               ELSE pool
  /\ last' = Op("record_dispose", 0, 0, NoValue)

\* ------------------------------------------------- shared_buffer's actions
Now == St(sh, cb, calls)

Become(S) ==
  /\ sh' = S.sh
  /\ cb' = S.cb
  /\ calls' = S.calls

\* shared_buffer() noexcept = default
shared_default_ctor(h) ==
  /\ ~sh[h].live
  /\ sh' = [sh EXCEPT ![h] = SObj(TRUE, Null)]
  /\ UNCHANGED <<uq, cb, recs, calls, nptr>>
  /\ UNCHANGED <<conc, aside, arenas>>
  /\ UNCHANGED pool
  /\ last' = Op("shared_default_ctor", h, 0, NoValue)

\* explicit shared_buffer(pointer ptr, size_type size, deleter_type deleter, loc)
shared_ptr_ctor(h, p, n, d, loc) ==
  /\ ~sh[h].live
  /\ shared_construct_allocates(p, n) => FreshCtrl(cb) # Null
  /\ nptr' = Allocated(p)
  /\ Become(shared_construct(Now, h, FreshCtrl(cb), p, n, d, loc))
  /\ UNCHANGED <<uq, recs>>
  /\ UNCHANGED <<conc, aside, arenas>>
  /\ UNCHANGED pool
  /\ last' = Op("shared_ptr_ctor", h, 0, NoValue)

\* explicit shared_buffer(released_buffer<T> rb): the caller hands over rb.
shared_from_record(h, rb) ==
  /\ ~sh[h].live
  /\ rb \in RecordArgs
  /\ shared_construct_allocates(rb.ptr, rb.count) => FreshCtrl(cb) # Null
  /\ recs' = recs \ {rb}
  /\ Become(shared_construct(Now, h, FreshCtrl(cb), rb.ptr, rb.count,
                             rb.deleter, rb.location))
  /\ UNCHANGED <<uq, nptr>>
  /\ UNCHANGED <<conc, aside, arenas>>
  /\ UNCHANGED pool
  /\ last' = Op("shared_from_record", h, 0, NoValue)

\* shared_buffer(unique_buffer<T>&& u_b) : shared_buffer(u_b.release())
shared_from_unique(h, u) ==
  /\ ~sh[h].live
  /\ uq[u].live
  /\ LET rb == unique_release_rec(uq[u]) IN
       /\ shared_construct_allocates(rb.ptr, rb.count) => FreshCtrl(cb) # Null
       /\ Become(shared_construct(Now, h, FreshCtrl(cb), rb.ptr, rb.count,
                                  rb.deleter, rb.location))
  /\ uq' = [uq EXCEPT ![u] = unique_release_obj(uq[u])]
  /\ UNCHANGED <<recs, nptr>>
  /\ UNCHANGED <<conc, aside, arenas>>
  /\ UNCHANGED pool
  /\ last' = Op("shared_from_unique", h, u, NoValue)

\* shared_buffer(const shared_buffer& other)
shared_copy_ctor(h, o) ==
  /\ ~sh[h].live
  /\ sh[o].live
  /\ Become(shared_copy(Now, h, o))
  /\ UNCHANGED <<uq, recs, nptr>>
  /\ UNCHANGED <<conc, aside, arenas>>
  /\ UNCHANGED pool
  /\ last' = Op("shared_copy_ctor", h, o, NoValue)

\* shared_buffer& operator=(const shared_buffer& other)
shared_copy_assignment(h, o) ==
  /\ sh[h].live
  /\ sh[o].live
  /\ Become(shared_copy_assign(Now, h, o))
  /\ UNCHANGED <<uq, recs, nptr>>
  /\ UNCHANGED <<conc, aside, arenas>>
  /\ pool' = shared_copy_assign_pool(Now, h, o, pool)
  /\ last' = Op("shared_copy_assign", h, o, NoValue)

\* shared_buffer(shared_buffer&& other)
shared_move_ctor(h, o) ==
  /\ ~sh[h].live
  /\ sh[o].live
  /\ Become(shared_move(Now, h, o))
  /\ UNCHANGED <<uq, recs, nptr>>
  /\ UNCHANGED <<conc, aside, arenas>>
  /\ UNCHANGED pool
  /\ last' = Op("shared_move_ctor", h, o, NoValue)

\* shared_buffer& operator=(shared_buffer&& other)
shared_move_assignment(h, o) ==
  /\ sh[h].live
  /\ sh[o].live
  /\ Become(shared_move_assign(Now, h, o))
  /\ UNCHANGED <<uq, recs, nptr>>
  /\ UNCHANGED <<conc, aside, arenas>>
  /\ pool' = (IF h # o THEN release_ctrl_pool(Now, h, pool) ELSE pool)
  /\ last' = Op("shared_move_assign", h, o, NoValue)

\* ~shared_buffer()
shared_dtor(h) ==
  /\ sh[h].live
  /\ LET R == release_ctrl(Now, h) IN
       Become(St([R.sh EXCEPT ![h] = SObj(FALSE, Null)], R.cb, R.calls))
  /\ UNCHANGED <<uq, recs, nptr>>
  /\ UNCHANGED <<conc, aside, arenas>>
  /\ pool' = release_ctrl_pool(Now, h, pool)
  /\ last' = Op("shared_dtor", h, 0, NoValue)

\* std::optional<released_buffer<T>> shared_buffer::release()
shared_release_op(h) ==
  /\ sh[h].live
  /\ LET r == shared_release(Now, h) IN
       /\ Become(r.st)
       /\ recs' = IF r.ret.has THEN Keep(recs, r.ret.val) ELSE recs
  /\ UNCHANGED <<uq, nptr>>
  /\ UNCHANGED <<conc, aside, arenas>>
  /\ UNCHANGED pool
  /\ last' = Op("shared_release", h, 0, shared_release(Now, h).ret)

\* void shared_buffer::reset()
shared_reset_op(h) ==
  /\ sh[h].live
  /\ Become(shared_reset(Now, h))
  /\ UNCHANGED <<uq, recs, nptr>>
  /\ UNCHANGED <<conc, aside, arenas>>
  /\ pool' = release_ctrl_pool(Now, h, pool)
  /\ last' = Op("shared_reset", h, 0, NoValue)

\* void shared_buffer::swap(shared_buffer& other)
shared_swap_op(h, o) ==
  /\ sh[h].live
  /\ sh[o].live
  /\ Become(shared_swap(Now, h, o))
  /\ UNCHANGED <<uq, recs, nptr>>
  /\ UNCHANGED <<conc, aside, arenas>>
  /\ UNCHANGED pool
  /\ last' = Op("shared_swap", h, o, NoValue)

\* --------------------- operator=(const shared_buffer&), statement by statement
\* The statements that follow the self-assignment test and the read of
\* other.ctrl_, in the order the code runs them.
\* (Faulty variant: one that drops the old block before it counts the new.)
copy_assign_statement_release_first(i) ==
  <<"release_ctrl", "fetch_add", "store">>[i]

copy_assign_statement(i) == <<"fetch_add", "release_ctrl", "store">>[i]

\* The call: `if (this == &other) return *this;` and
\* `control_block *new_ctrl = other.ctrl_;`
copy_assign_call(h, o) ==
  /\ asg.pc = 0
  /\ sh[h].live
  /\ sh[o].live
  /\ asg' = IF h = o THEN NoAssign ELSE Assign(1, h, o, sh[o].ctrl, FALSE, Now)
  /\ UNCHANGED <<uq, sh, cb, recs, calls, nptr, conc, pool, arenas, pth, mtx, an, net, life>>
  /\ last' = Op("copy_assign_call", h, o, NoValue)

\* The frame after the statement at asg.pc; the last one returns.
AssignAfter(s) ==
  IF asg.pc = 3
    THEN NoAssign
    ELSE [asg EXCEPT !.pc = @ + 1, !.added = @ \/ s = "fetch_add"]

\* `if (new_ctrl) new_ctrl->ref.fetch_add(1, std::memory_order_relaxed);`
copy_assign_fetch_add ==
  /\ asg.pc # 0
  /\ copy_assign_statement(asg.pc) = "fetch_add"
  /\ cb' = IF asg.new_ctrl # Null THEN fetch_add(cb, asg.new_ctrl, 1) ELSE cb
  /\ asg' = AssignAfter("fetch_add")
  /\ UNCHANGED <<uq, sh, recs, calls, nptr, conc, pool, arenas, pth, mtx, an, net, life>>
  /\ last' = Op("fetch_add", asg.this, asg.other, NoValue)

\* `release_ctrl();`
copy_assign_release_ctrl ==
  /\ asg.pc # 0
  /\ copy_assign_statement(asg.pc) = "release_ctrl"
  /\ Become(release_ctrl(Now, asg.this))
  /\ asg' = AssignAfter("release_ctrl")
  /\ UNCHANGED <<uq, recs, nptr, conc, pool, arenas, pth, mtx, an, net, life>>
  /\ last' = Op("release_ctrl", asg.this, asg.other, NoValue)

\* `ctrl_ = new_ctrl; return *this;`
copy_assign_store ==
  /\ asg.pc # 0
  /\ copy_assign_statement(asg.pc) = "store"
  /\ sh' = [sh EXCEPT ![asg.this].ctrl = asg.new_ctrl]
  /\ asg' = AssignAfter("store")
  /\ UNCHANGED <<uq, cb, recs, calls, nptr, conc, pool, arenas, pth, mtx, an, net, life>>
  /\ last' = Op("store", asg.this, asg.other, NoValue)

\* A program of one thread that builds, copies, assigns and destroys
\* shared_buffer objects; no other member function runs while the assignment
\* is under way.
AssignNext ==
  \/ /\ asg.pc = 0
     /\ \/ \E h \in SharedIds : shared_default_ctor(h)
        \/ \E h \in SharedIds, p \in PtrArgs, n \in CountArgs, d \in DeleterArgs,
              loc \in LocationArgs : shared_ptr_ctor(h, p, n, d, loc)
        \/ \E h \in SharedIds : \E o \in SharedIds \ {h} : shared_copy_ctor(h, o)
        \/ \E h \in SharedIds : shared_dtor(h)
  \/ \E h \in SharedIds, o \in SharedIds : copy_assign_call(h, o)
  \/ copy_assign_fetch_add
  \/ copy_assign_release_ctrl
  \/ copy_assign_store

AssignSpec == Init /\ [][AssignNext]_vars

\* A program with two unique and two shared handles (a and b of each kind)
\* that builds them, swaps them and destroys them.
SwapPair == {1, 2}

SwapNext ==
  \/ \E u \in SwapPair, p \in PtrArgs, n \in CountArgs, d \in DeleterArgs,
        loc \in LocationArgs : unique_adopt_ctor(u, p, n, d, loc)
  \/ \E u \in SwapPair : unique_dtor(u)
  \/ \E u \in SwapPair, o \in SwapPair : unique_swap(u, o)
  \/ \E h \in SwapPair, p \in PtrArgs, n \in CountArgs, d \in DeleterArgs,
        loc \in LocationArgs : shared_ptr_ctor(h, p, n, d, loc)
  \/ \E h \in SwapPair : \E o \in SwapPair \ {h} : shared_copy_ctor(h, o)
  \/ \E h \in SwapPair : shared_dtor(h)
  \/ \E h \in SwapPair, o \in SwapPair : shared_swap_op(h, o)

SwapSpec == Init /\ [][SwapNext]_vars

\* ------------------------------------------------------------------ Next
\* The unique handle's operations.
UniqueNext ==
  \/ \E u \in UniqueIds : unique_default_ctor(u)
  \/ \E u \in UniqueIds, n \in CountArgs, loc \in LocationArgs :
       unique_alloc_ctor(u, n, loc)
  \/ \E u \in UniqueIds, p \in PtrArgs, n \in CountArgs, d \in DeleterArgs,
        loc \in LocationArgs : unique_adopt_ctor(u, p, n, d, loc)
  \/ \E u \in UniqueIds, rb \in RecordArgs : unique_from_record(u, rb)
  \/ \E u \in UniqueIds : \E o \in UniqueIds \ {u} : unique_move_ctor(u, o)
  \/ \E u \in UniqueIds, o \in UniqueIds : unique_move_assign(u, o)
  \/ \E u \in UniqueIds : unique_dtor(u)
  \/ \E u \in UniqueIds : unique_release(u)
  \/ \E u \in UniqueIds : unique_reset(u)
  \/ \E u \in UniqueIds, o \in UniqueIds : unique_swap(u, o)
  \/ \E rb \in recs : record_dispose(rb)

UniqueSpec == Init /\ [][UniqueNext]_vars

\* The shared handle's operations.  One unique handle takes part, as the
\* source of the upgrade shared_buffer(unique_buffer&&): unique_buffer's
\* constructors build it in every state a unique handle can be in.
UpgradeSources == {1}

Next ==
  \/ \E u \in UpgradeSources, n \in CountArgs, loc \in LocationArgs :
       unique_alloc_ctor(u, n, loc)
  \/ \E u \in UpgradeSources, p \in PtrArgs, n \in CountArgs, d \in DeleterArgs,
        loc \in LocationArgs : unique_adopt_ctor(u, p, n, d, loc)
  \/ \E u \in UpgradeSources : unique_dtor(u)
  \/ \E rb \in recs : record_dispose(rb)
  \/ \E h \in SharedIds : shared_default_ctor(h)
  \/ \E h \in SharedIds, p \in PtrArgs, n \in CountArgs, d \in DeleterArgs,
        loc \in LocationArgs : shared_ptr_ctor(h, p, n, d, loc)
  \/ \E h \in SharedIds, rb \in RecordArgs : shared_from_record(h, rb)
  \/ \E h \in SharedIds, u \in UpgradeSources : shared_from_unique(h, u)
  \/ \E h \in SharedIds : \E o \in SharedIds \ {h} : shared_copy_ctor(h, o)
  \/ \E h \in SharedIds, o \in SharedIds : shared_copy_assignment(h, o)
  \/ \E h \in SharedIds : \E o \in SharedIds \ {h} : shared_move_ctor(h, o)
  \/ \E h \in SharedIds, o \in SharedIds : shared_move_assignment(h, o)
  \/ \E h \in SharedIds : shared_dtor(h)
  \/ \E h \in SharedIds : shared_release_op(h)
  \/ \E h \in SharedIds : shared_reset_op(h)
  \/ \E h \in SharedIds, o \in SharedIds : shared_swap_op(h, o)

Spec == Init /\ [][Next]_vars

\* ---------------------------------------------------------- the pool
\* MemPool(block_size, block_count, loc); base is what aligned_alloc returns.
\* (last keeps the two sizes asked for as dst and src.)
pool_ctor(bs, bc, loc, elem, align, base) ==
  /\ ~pool.live
  /\ pool' = pool_construct(bs, bc, loc, elem, align, base).pool
  /\ arenas' = IF pool_construct(bs, bc, loc, elem, align, base).arena # Null
                 THEN arenas \cup {pool_construct(bs, bc, loc, elem, align, base).arena}
                 ELSE arenas
  /\ UNCHANGED <<uq, sh, cb, recs, calls, nptr>>
  /\ UNCHANGED <<conc, aside>>
  /\ last' = OpErr("pool_ctor", bs, bc, pool_construct(bs, bc, loc, elem, align, base).err)

\* auto u = pool.allocate(): u is the object the call's result initialises.
\* (A call that throws builds no object, so it can be made whatever u is.)
pool_allocate(u) ==
  /\ pool.live
  /\ uq[u].live => allocate(pool).err # "none"
  /\ pool' = allocate(pool).pool
  /\ uq' = IF allocate(pool).err = "none"
             THEN [uq EXCEPT ![u] = allocate(pool).buf]
             ELSE uq
  /\ UNCHANGED <<sh, cb, recs, calls, nptr>>
  /\ UNCHANGED <<conc, aside, arenas>>
  /\ last' = OpErr("pool_allocate", u, 0, allocate(pool).err)

\* A pool and the buffers it hands out.
PoolNext ==
  \/ \E bs \in BlockSizeArgs, bc \in BlockCountArgs, loc \in LocationArgs,
        elem \in ElemSizes, align \in Alignments :
       \E base \in ArenaBases(align) : pool_ctor(bs, bc, loc, elem, align, base)
  \/ \E u \in UniqueIds : pool_allocate(u)
  \/ \E u \in UniqueIds : unique_reset(u)
  \/ \E u \in UniqueIds : unique_dtor(u)
  \/ \E u \in UniqueIds : \E o \in UniqueIds \ {u} : unique_move_assign(u, o)
  \/ \E u \in UniqueIds : unique_release(u)
  \/ \E u \in UniqueIds, rb \in recs : unique_from_record(u, rb)
  \/ \E rb \in recs : record_dispose(rb)

PoolSpec == Init /\ [][PoolNext]_vars

\* MemPool<T, Alignment>(block_size, block_count, loc) for a T whose default
\* constructor can throw: fail is the block whose construction throws
\* (block_count when none does).
pool_ctor_elements(bs, bc, loc, elem, align, base, fail) ==
  /\ ~pool.live
  /\ LET r == pool_construct_elements(bs, bc, loc, elem, align, base, fail) IN
       /\ pool' = r.pool
       /\ arenas' = IF r.arena # Null THEN arenas \cup {r.arena} ELSE arenas
       /\ life' = r.life
       /\ UNCHANGED <<uq, sh, cb, recs, calls, nptr>>
       /\ UNCHANGED <<conc, pth, mtx, an, net, asg>>
       /\ last' = OpErr("pool_ctor_elements", bs, bc, r.err)

\* A program that builds a pool of such elements, over again when the
\* constructor throws, and takes and returns blocks.
\* (One block more than elsewhere: the order of the rollback shows from two
\* destroyed blocks on, that is, when the third block fails.)
RollbackCountArgs == 0..(MaxBlocks + 1)

RollbackNext ==
  \/ \E bs \in BlockSizeArgs, bc \in RollbackCountArgs, loc \in LocationArgs,
        elem \in ElemSizes, align \in Alignments :
       \E base \in ArenaBases(align), fail \in 0..bc :
         pool_ctor_elements(bs, bc, loc, elem, align, base, fail)
  \/ \E u \in UniqueIds : pool_allocate(u)
  \/ \E u \in UniqueIds : unique_reset(u)
  \/ \E u \in UniqueIds : unique_dtor(u)

RollbackSpec == Init /\ [][RollbackNext]_vars

\* A program that takes blocks from a pool and passes them on: from unique
\* handle to unique handle, through release() and the constructors from a
\* released_buffer, into shared handles and their copies, and back.
\* (The pool is one of char, aligned to 2: who owns a block does not depend on
\* the element's size.)
PoolChainNext ==
  \/ \E bs \in {0, MaxBlockSize}, bc \in BlockCountArgs, loc \in LocationArgs :
       \E base \in ArenaBases(2) : pool_ctor(bs, bc, loc, 1, 2, base)
  \/ \E u \in UniqueIds : pool_allocate(u)
  \/ \E u \in UniqueIds : \E o \in UniqueIds \ {u} : unique_move_ctor(u, o)
  \/ \E u \in UniqueIds, o \in UniqueIds : unique_move_assign(u, o)
  \/ \E u \in UniqueIds : unique_release(u)
  \/ \E u \in UniqueIds, rb \in recs : unique_from_record(u, rb)
  \/ \E u \in UniqueIds : unique_reset(u)
  \/ \E u \in UniqueIds : unique_dtor(u)
  \/ \E h \in SharedIds, u \in UniqueIds : shared_from_unique(h, u)
  \/ \E h \in SharedIds, rb \in recs : shared_from_record(h, rb)
  \/ \E h \in SharedIds : \E o \in SharedIds \ {h} : shared_copy_ctor(h, o)
  \/ \E h \in SharedIds, o \in SharedIds : shared_copy_assignment(h, o)
  \/ \E h \in SharedIds : \E o \in SharedIds \ {h} : shared_move_ctor(h, o)
  \/ \E h \in SharedIds, o \in SharedIds : shared_move_assignment(h, o)
  \/ \E h \in SharedIds : shared_release_op(h)
  \/ \E h \in SharedIds : shared_reset_op(h)
  \/ \E h \in SharedIds : shared_dtor(h)

PoolChainSpec == Init /\ [][PoolChainNext]_vars

\* MemPoolTest.Alignment: MemPool<char, 128> pool(100, 3), and a program that
\* takes blocks from it and gives them back.
TestAlignment == 128
TestBlockSize == 100
TestBlockCount == 3

AlignmentNext ==
  \/ \E base \in ArenaBases(TestAlignment) :
       pool_ctor(TestBlockSize, TestBlockCount, Host, 1, TestAlignment, base)
  \/ \E u \in PoolHandles : pool_allocate(u)
  \/ \E u \in PoolHandles : unique_reset(u)
  \/ \E u \in PoolHandles : unique_dtor(u)

AlignmentSpec == Init /\ [][AlignmentNext]_vars

\* A pool of a block size from either end of what a std::size_t can hold, and
\* the buffers it hands out.
AnyBlockSize ==
  (1..MaxBlockSize)
    \cup {SizeModulus \div e + k : e \in ElemSizes \ {1}, k \in 0..MaxBlockSize}
    \cup {SizeModulus - 1}

LargePoolNext ==
  \/ \E bs \in AnyBlockSize, bc \in BlockCountArgs, loc \in LocationArgs,
        elem \in ElemSizes, align \in Alignments :
       \E base \in ArenaBases(align) : pool_ctor(bs, bc, loc, elem, align, base)
  \/ \E u \in PoolHandles : pool_allocate(u)
  \/ \E u \in PoolHandles : unique_reset(u)
  \/ \E u \in PoolHandles : unique_dtor(u)

LargePoolSpec == Init /\ [][LargePoolNext]_vars

\* ------------------------------------------------- the pool's threads
\* MemPoolTest.ThreadSafeAllocation: the main thread builds a pool, and every
\* thread runs `auto buf = pool.allocate();` and returns, which destroys buf.
\* allocate() and release_block() are cut at their accesses to the free list;
\* what orders them is mtx_.  (last is the record of the single-threaded
\* operations; the threads' steps leave it alone.)

\* std::lock_guard<std::mutex> lock(mtx_): whether the constructor returns
\* (it blocks while another thread, or the caller itself, holds the mutex) ...
\* (Faulty variant: no mutual exclusion.)
may_lock_always(m) == TRUE

may_lock(m) == m = Unlocked

\* ... and the lock_guard's destructor.
\* (Faulty variant: a lock that is never given back.)
unlock_never(m) == m

unlock(m) == Unlocked

\* allocate(): the lock is taken
pool_thread_allocate(t) ==
  /\ pool.live
  /\ pth[t].pc = "idle"
  /\ may_lock(mtx)
  /\ mtx' = t
  /\ pth' = [pth EXCEPT ![t].pc = "allocate"]
  /\ UNCHANGED <<uq, sh, cb, recs, calls, nptr, last, conc, pool, arenas, an, net, asg, life>>

\* allocate(): `if (free_blocks_.empty()) throw ...; T *ptr = free_blocks_.back();`
pool_thread_back(t) ==
  /\ pth[t].pc = "allocate"
  /\ IF pool.free = <<>>
       THEN /\ pth' = [pth EXCEPT ![t].pc = "done", ![t].err = "runtime_error"]
            /\ mtx' = unlock(mtx)
       ELSE /\ pth' = [pth EXCEPT ![t].pc = "pop_back",
                                  ![t].ptr = pool.free[Len(pool.free)]]
            /\ UNCHANGED mtx
  /\ UNCHANGED <<uq, sh, cb, recs, calls, nptr, last, conc, pool, arenas, an, net, asg, life>>

\* allocate(): `free_blocks_.pop_back();`
pool_thread_pop_back(t) ==
  /\ pth[t].pc = "pop_back"
  /\ pool' = [pool EXCEPT !.free = SubSeq(@, 1, Len(@) - 1)]
  /\ pth' = [pth EXCEPT ![t].pc = "return"]
  /\ UNCHANGED <<uq, sh, cb, recs, calls, nptr, last, conc, mtx, arenas, an, net, asg, life>>

\* allocate(): `return unique_buffer<T>(ptr, block_size_, ..., location_);`
pool_thread_return(t) ==
  /\ pth[t].pc = "return"
  /\ pth' = [pth EXCEPT ![t].pc = "holding",
                        ![t].buf = UObj(TRUE, pth[t].ptr, pool.block_size,
                                        pool.location, PoolDeleter)]
  /\ mtx' = unlock(mtx)
  /\ UNCHANGED <<uq, sh, cb, recs, calls, nptr, last, conc, pool, arenas, an, net, asg, life>>

\* ~unique_buffer() of buf calls its deleter, release_block(p): the lock is
\* taken
pool_thread_drop(t) ==
  /\ pth[t].pc = "holding"
  /\ may_lock(mtx)
  /\ mtx' = t
  /\ pth' = [pth EXCEPT ![t].pc = "release_block"]
  /\ UNCHANGED <<uq, sh, cb, recs, calls, nptr, last, conc, pool, arenas, an, net, asg, life>>

\* release_block(p): `free_blocks_.push_back(p);`, and the handle is gone
pool_thread_push_back(t) ==
  /\ pth[t].pc = "release_block"
  /\ pool' = unique_reset_pool(pth[t].buf, pool)
  /\ mtx' = unlock(mtx)
  /\ pth' = [pth EXCEPT ![t].pc = "done", ![t].buf = DeadUnique]
  /\ UNCHANGED <<uq, sh, cb, recs, calls, nptr, last, conc, arenas, an, net, asg, life>>

\* One step of thread t.
pool_thread_step(t) ==
  \/ pool_thread_allocate(t)
  \/ pool_thread_back(t)
  \/ pool_thread_pop_back(t)
  \/ pool_thread_return(t)
  \/ pool_thread_drop(t)
  \/ pool_thread_push_back(t)

\* The main thread's MemPool<char> pool(block_size, block_count).
pool_thread_main ==
  \E bs \in BlockSizeArgs \ {0}, bc \in BlockCountArgs \ {0}, align \in Alignments :
    pool_ctor(bs, bc, Host, 1, align, align)

PoolThreadsNext ==
  \/ pool_thread_main
  \/ \E t \in PoolThreads : pool_thread_step(t)

\* Every thread that can take a step eventually takes one (std::async with
\* std::launch::async runs each body on a thread of its own).
PoolThreadsSpec ==
  /\ Init
  /\ [][PoolThreadsNext]_vars
  /\ WF_vars(pool_thread_main)
  /\ \A t \in PoolThreads : WF_vars(pool_thread_step(t))

\* ---------------------------------------------------- throwing deleters
\* The handles' operations on buffers whose deleter throws: the caller gives
\* every adopting constructor the throwing deleter.
ThrowNext ==
  \/ \E u \in UpgradeSources, p \in PtrArgs, n \in CountArgs, loc \in LocationArgs :
       unique_adopt_ctor(u, p, n, ThrowingDeleter, loc)
  \/ \E u \in UpgradeSources : unique_reset(u)
  \/ \E u \in UpgradeSources : unique_dtor(u)
  \/ \E h \in SharedIds, p \in PtrArgs, n \in CountArgs, loc \in LocationArgs :
       shared_ptr_ctor(h, p, n, ThrowingDeleter, loc)
  \/ \E h \in SharedIds, u \in UpgradeSources : shared_from_unique(h, u)
  \/ \E h \in SharedIds : \E o \in SharedIds \ {h} : shared_copy_ctor(h, o)
  \/ \E h \in SharedIds, o \in SharedIds : shared_copy_assignment(h, o)
  \/ \E h \in SharedIds, o \in SharedIds : shared_move_assignment(h, o)
  \/ \E h \in SharedIds : shared_dtor(h)
  \/ \E h \in SharedIds : shared_reset_op(h)

ThrowSpec == Init /\ [][ThrowNext]_vars

\* ------------------------------------------------------------ the threads
\* Each thread works on shared_buffer objects of its own; the threads meet in
\* the control block only.  A member function is cut at its accesses to the
\* control block: the atomic operation on ref, the reads of the other
\* members, `delete ctrl_`.  An access to a control block that has been
\* deleted is undefined behaviour: uaf records it, and what the access
\* returns is any value.

\* The main thread has built one shared_buffer and handed a copy to every
\* thread.
ConcInit ==
  /\ uq = [u \in PoolHandles |-> DeadUnique]
  /\ sh = [h \in SharedIds |-> SObj(FALSE, Null)]
  /\ \E d \in DeleterArgs :
       cb = [c \in CtrlIds |->
               IF c = 1
                 THEN [control_block(1, MaxCount, d, Host) EXCEPT !.ref = NumThreads]
                 ELSE NoBlock]
  /\ recs = {}
  /\ calls = [p \in Ptrs |-> <<>>]
  /\ nptr = 1
  /\ last = [op |-> "init", dst |-> 0, src |-> 0, ret |-> NoValue, ran |-> FALSE,
             threw |-> FALSE, err |-> "none"]
  /\ th = [t \in Threads |->
            Thread([s \in Slots |-> IF s = "a" THEN SObj(TRUE, 1) ELSE SObj(FALSE, Null)],
                   "idle", "a", FALSE, EmptyRecord)]
  /\ freed = [c \in CtrlIds |-> 0]
  /\ uaf = FALSE
  /\ pool = NoPool
  /\ arenas = {}
  /\ pth = [t \in PoolThreads |-> NoPoolThread]
  /\ mtx = Unlocked
  /\ an = [a \in AnyObjects |-> DeadAny]
  /\ net = 0
  /\ asg = NoAssign
  /\ life = <<>>

\* What ref.fetch_sub returns, what ref.compare_exchange_strong does and what
\* the reads of ptr/size/location/deleter give, on block c.
PrevSeen(c) == IF cb[c].alloc THEN {cb[c].ref} ELSE {1, 2}

CasSeen(c) ==
  IF cb[c].alloc
    THEN {compare_exchange_strong(cb, c, 1, 0)}
    ELSE {[ok |-> b, cb |-> cb] : b \in BOOLEAN}

FieldsSeen(c) ==
  IF cb[c].alloc
    THEN {released_buffer(cb[c].ptr, cb[c].size, cb[c].deleter, cb[c].location)}
    ELSE {released_buffer(p, n, d, Host) : p \in Ptrs, n \in CountArgs, d \in DeleterArgs}

\* The thread is back from the member function it was in.
Returned(hs) == Thread(hs, "idle", "a", FALSE, EmptyRecord)

\* shared_buffer(const shared_buffer& other): y built from x.
conc_copy(t, x, y) ==
  /\ th[t].pc = "idle"
  /\ x # y
  /\ th[t].hs[x].live
  /\ ~th[t].hs[y].live
  /\ LET c == th[t].hs[x].ctrl IN
       /\ th' = [th EXCEPT ![t].hs[y] = SObj(TRUE, c)]
       /\ cb' = IF c # Null /\ cb[c].alloc THEN fetch_add(cb, c, 1) ELSE cb
       /\ uaf' = (uaf \/ (c # Null /\ ~cb[c].alloc))
  /\ UNCHANGED <<aside, arenas, pool, uq, sh, recs, calls, nptr, freed>>
  /\ last' = Op("conc_copy", t, 0, NoValue)

\* The thread after release_ctrl() has set ctrl_ = nullptr and returned to
\* its caller: reset() and the destructor are done; the copy assignment
\* stores new_ctrl (what other.ctrl_ held, and holds), the move assignment
\* takes other.ctrl_ and nulls it.  None of this touches a control block.
AfterRelease(thr) ==
  IF thr.cont = "copy_assign"
    THEN Returned([thr.hs EXCEPT ![thr.x] = SObj(TRUE, thr.hs[thr.other].ctrl)])
  ELSE IF thr.cont = "move_assign"
    THEN Returned([thr.hs EXCEPT ![thr.x] = SObj(TRUE, thr.hs[thr.other].ctrl),
                                 ![thr.other] = SObj(TRUE, Null)])
  ELSE Returned([thr.hs EXCEPT ![thr.x] = SObj(~thr.dying, Null)])

\* release_ctrl() on x up to and including `prev = ctrl_->ref.fetch_sub(1)`
\* and the test of prev; dying says that the caller is the destructor, cont
\* and other say which assignment, if any, called it and with what argument.
release_ctrl_step(t, x, dying, cont, other) ==
  LET c == th[t].hs[x].ctrl
      in_call == [Thread(th[t].hs, "call_deleter", x, dying, th[t].rec)
                    EXCEPT !.cont = cont, !.other = other]
  IN
  IF c = Null
    THEN /\ th' = [th EXCEPT ![t] = AfterRelease(in_call)]
         /\ UNCHANGED <<cb, uaf>>
    ELSE \E prev \in PrevSeen(c) :
           /\ cb' = IF cb[c].alloc THEN fetch_sub(cb, c, 1) ELSE cb
           /\ uaf' = (uaf \/ ~cb[c].alloc)
           /\ th' = IF was_last_owner(prev)
                      THEN [th EXCEPT ![t] = in_call]
                      ELSE [th EXCEPT ![t] = AfterRelease(in_call)]

\* release_ctrl() called by reset() or by the destructor.
release_ctrl_begin(t, x, dying) ==
  /\ th[t].pc = "idle"
  /\ th[t].hs[x].live
  /\ release_ctrl_step(t, x, dying, "return", "a")
  /\ UNCHANGED <<aside, arenas, pool, uq, sh, recs, calls, nptr, freed>>

\* reset()
conc_reset(t, x) ==
  /\ release_ctrl_begin(t, x, FALSE)
  /\ last' = Op("conc_reset", t, 0, NoValue)

\* ~shared_buffer()
conc_dtor(t, x) ==
  /\ release_ctrl_begin(t, x, TRUE)
  /\ last' = Op("conc_dtor", t, 0, NoValue)

\* release_ctrl(), last owner: `if (ctrl_->deleter) ctrl_->deleter(ctrl_->ptr)`
conc_call_deleter(t) ==
  /\ th[t].pc = "call_deleter"
  /\ LET c == th[t].hs[th[t].x].ctrl IN
       /\ \E f \in FieldsSeen(c) :
            calls' = IF f.deleter # NoDeleter
                       THEN Invoke(calls, f.deleter, f.ptr)
                       ELSE calls
       /\ uaf' = (uaf \/ ~cb[c].alloc)
  /\ th' = [th EXCEPT ![t].pc = "delete"]
  /\ UNCHANGED <<aside, arenas, pool, uq, sh, cb, recs, nptr, freed>>
  /\ last' = Op("conc_call_deleter", t, 0, NoValue)

\* release_ctrl(), last owner: `delete ctrl_; ctrl_ = nullptr`
conc_delete(t) ==
  /\ th[t].pc = "delete"
  /\ LET x == th[t].x
         c == th[t].hs[x].ctrl
     IN
       /\ freed[c] <= NumThreads
       /\ cb' = delete_block(cb, c)
       /\ freed' = [freed EXCEPT ![c] = @ + 1]
       /\ th' = [th EXCEPT ![t] = AfterRelease(@)]
  /\ UNCHANGED <<aside, arenas, pool, uq, sh, recs, calls, nptr, uaf>>
  /\ last' = Op("conc_delete", t, 0, NoValue)

\* release() up to and including the compare_exchange_strong(expected = 1, 0)
conc_release(t, x) ==
  /\ th[t].pc = "idle"
  /\ th[t].hs[x].live
  /\ LET c == th[t].hs[x].ctrl IN
       IF c = Null
         THEN UNCHANGED <<th, cb, uaf>>
         ELSE \E r \in CasSeen(c) :
                /\ cb' = r.cb
                /\ uaf' = (uaf \/ ~cb[c].alloc)
                /\ th' = IF r.ok
                           THEN [th EXCEPT ![t] =
                                   Thread(@.hs, "release_read", x, FALSE, @.rec)]
                           ELSE th
  /\ UNCHANGED <<aside, arenas, pool, uq, sh, recs, calls, nptr, freed>>
  /\ last' = Op("conc_release", t, 0, NoValue)

\* release(): the reads of ctrl_->ptr, size, location and deleter
conc_release_read(t) ==
  /\ th[t].pc = "release_read"
  /\ LET c == th[t].hs[th[t].x].ctrl IN
       /\ \E f \in FieldsSeen(c) :
            th' = [th EXCEPT ![t].pc = "release_delete", ![t].rec = f]
       /\ uaf' = (uaf \/ ~cb[c].alloc)
  /\ UNCHANGED <<aside, arenas, pool, uq, sh, cb, recs, calls, nptr, freed>>
  /\ last' = Op("conc_release_read", t, 0, NoValue)

\* release(): `delete ctrl_; ctrl_ = nullptr; return released_buffer{...}`
conc_release_delete(t) ==
  /\ th[t].pc = "release_delete"
  /\ LET x == th[t].x
         c == th[t].hs[x].ctrl
     IN
       /\ freed[c] <= NumThreads
       /\ cb' = delete_block(cb, c)
       /\ freed' = [freed EXCEPT ![c] = @ + 1]
       /\ recs' = Keep(recs, th[t].rec)
       /\ th' = [th EXCEPT ![t] = Returned([@.hs EXCEPT ![x] = SObj(TRUE, Null)])]
  /\ UNCHANGED <<aside, arenas, pool, uq, sh, calls, nptr, uaf>>
  /\ last' = Op("conc_release_delete", t, 0, Some(th[t].rec))

ConcNext ==
  \/ \E t \in Threads, x \in Slots, y \in Slots : conc_copy(t, x, y)
  \/ \E t \in Threads, x \in Slots : conc_reset(t, x)
  \/ \E t \in Threads, x \in Slots : conc_dtor(t, x)
  \/ \E t \in Threads : conc_call_deleter(t)
  \/ \E t \in Threads : conc_delete(t)
  \/ \E t \in Threads, x \in Slots : conc_release(t, x)
  \/ \E t \in Threads : conc_release_read(t)
  \/ \E t \in Threads : conc_release_delete(t)

ConcSpec == ConcInit /\ [][ConcNext]_vars

\* The other member functions, which a thread runs on its own objects.
\* shared_buffer(shared_buffer&& other): y built from x; no access to the
\* control block.
conc_move(t, x, y) ==
  /\ th[t].pc = "idle"
  /\ x # y
  /\ th[t].hs[x].live
  /\ ~th[t].hs[y].live
  /\ th' = [th EXCEPT ![t].hs[y] = SObj(TRUE, th[t].hs[x].ctrl),
                      ![t].hs[x] = SObj(TRUE, Null)]
  /\ UNCHANGED <<aside, arenas, pool, uq, sh, cb, recs, calls, nptr, freed, uaf>>
  /\ last' = Op("conc_move", t, 0, NoValue)

\* swap(other): no access to the control block.
conc_swap(t, x, y) ==
  /\ th[t].pc = "idle"
  /\ x # y
  /\ th[t].hs[x].live
  /\ th[t].hs[y].live
  /\ th' = [th EXCEPT ![t].hs[x] = th[t].hs[y], ![t].hs[y] = th[t].hs[x]]
  /\ UNCHANGED <<aside, arenas, pool, uq, sh, cb, recs, calls, nptr, freed, uaf>>
  /\ last' = Op("conc_swap", t, 0, NoValue)

\* operator=(const shared_buffer& other), x = y, up to and including
\* `new_ctrl->ref.fetch_add(1)`; x = x returns at once.
conc_copy_assign(t, x, y) ==
  /\ th[t].pc = "idle"
  /\ th[t].hs[x].live
  /\ th[t].hs[y].live
  /\ IF x = y
       THEN UNCHANGED <<th, cb, uaf>>
       ELSE LET c == th[t].hs[y].ctrl IN
            /\ th' = [th EXCEPT ![t] =
                        [Thread(@.hs, "assign_release", x, FALSE, @.rec)
                           EXCEPT !.cont = "copy_assign", !.other = y]]
            /\ cb' = IF c # Null /\ cb[c].alloc THEN fetch_add(cb, c, 1) ELSE cb
            /\ uaf' = (uaf \/ (c # Null /\ ~cb[c].alloc))
  /\ UNCHANGED <<aside, arenas, pool, uq, sh, recs, calls, nptr, freed>>
  /\ last' = Op("conc_copy_assign", t, 0, NoValue)

\* operator=(const shared_buffer& other): its call of release_ctrl().
conc_assign_release(t) ==
  /\ th[t].pc = "assign_release"
  /\ release_ctrl_step(t, th[t].x, FALSE, "copy_assign", th[t].other)
  /\ UNCHANGED <<aside, arenas, pool, uq, sh, recs, calls, nptr, freed>>
  /\ last' = Op("conc_assign_release", t, 0, NoValue)

\* operator=(shared_buffer&& other), x = std::move(y): its call of
\* release_ctrl(); x = std::move(x) returns at once.
conc_move_assign(t, x, y) ==
  /\ th[t].pc = "idle"
  /\ th[t].hs[x].live
  /\ th[t].hs[y].live
  /\ IF x = y
       THEN UNCHANGED <<th, cb, uaf>>
       ELSE release_ctrl_step(t, x, FALSE, "move_assign", y)
  /\ UNCHANGED <<aside, arenas, pool, uq, sh, recs, calls, nptr, freed>>
  /\ last' = Op("conc_move_assign", t, 0, NoValue)

\* The threads copy, move, assign, swap, reset, release and destroy their
\* objects in any interleaving.
InterleaveNext ==
  \/ ConcNext
  \/ \E t \in Threads, x \in Slots, y \in Slots : conc_move(t, x, y)
  \/ \E t \in Threads, x \in Slots, y \in Slots : conc_swap(t, x, y)
  \/ \E t \in Threads, x \in Slots, y \in Slots : conc_copy_assign(t, x, y)
  \/ \E t \in Threads : conc_assign_release(t)
  \/ \E t \in Threads, x \in Slots, y \in Slots : conc_move_assign(t, x, y)

InterleaveSpec == ConcInit /\ [][InterleaveNext]_vars

\* --------------------------------------------------- nstd::any's actions
\* The value left in an object of type T that was moved from (a MoveOnly
\* such as std::unique_ptr becomes null, the other types keep their value).
MovedFrom == 0
moved_from(T, v) == IF T = "MoveOnly" THEN MovedFrom ELSE v

\* What a call of any_cast gives: the exception it ends in, whether the
\* pointer it found is non-null, and the object the pointer refers to.
Cast(err, found, obj) == [err |-> err, has |-> found, val |-> obj]

\* T *any_cast<T>(any *operand), on a non-null operand: the outcomes the
\* build can produce.  When type() == typeid(T) the manager is called; the
\* manager of an empty any is a null function pointer, and calling it is
\* undefined behaviour (a crash, or a return with arg.obj uninitialised).
any_cast_pointer(x, T) ==
  IF any_type(x) = T
    THEN IF x.manager # NoManager
           THEN {Cast("none", TRUE, x.obj)}
           ELSE {Cast("crash", FALSE, NoObj), Cast("none", FALSE, NoObj),
                 Cast("none", TRUE, NoObj)}
    ELSE {Cast("none", FALSE, NoObj)}

\* T any_cast<T>(any &operand), T a reference or a value type: bad_any_cast
\* when the pointer form gives null.
any_cast_reference(x, T) ==
  {IF r.err = "none" /\ ~r.has THEN Cast("bad_any_cast", FALSE, NoObj) ELSE r :
     r \in any_cast_pointer(x, T)}

AnyNow == World(an, net, "none")

AnyBecome(W) ==
  /\ an' = W.an
  /\ net' = W.net
  /\ UNCHANGED <<uq, sh, cb, recs, calls, nptr, conc, pool, arenas, pth, mtx, asg, life>>

\* any a;
any_default_ctor(a) ==
  /\ ~an[a].live
  /\ AnyBecome([AnyNow EXCEPT !.an[a] = EmptyAny])
  /\ last' = Op("any_default_ctor", a, 0, NoValue)

\* any a(o);
any_copy_ctor(a, o) ==
  /\ ~an[a].live
  /\ an[o].live
  /\ LET W == any_copy_construct(AnyNow, a, o) IN
       /\ AnyBecome(W)
       /\ last' = OpErr("any_copy_ctor", a, o, W.err)

\* any a(std::move(o));
any_move_ctor(a, o) ==
  /\ ~an[a].live
  /\ an[o].live
  /\ AnyBecome(any_move_construct(AnyNow, a, o))
  /\ last' = Op("any_move_ctor", a, o, NoValue)

\* any a = value; any a(std::in_place_type<T>, args...);
any_value_ctor(a, T, v, how) ==
  /\ ~an[a].live
  /\ LET W == any_value_construct(AnyNow, a, T, v, how) IN
       /\ AnyBecome(W)
       /\ last' = OpErr("any_value_ctor", a, 0, W.err)

\* ~any(); last keeps the object a held as ret.
any_dtor(a) ==
  /\ an[a].live
  /\ AnyBecome(any_destroy(AnyNow, a))
  /\ last' = Op("any_dtor", a, 0, [has |-> has_value(an[a]), val |-> an[a].obj])

\* a = o;
any_copy_assignment(a, o) ==
  /\ an[a].live
  /\ an[o].live
  /\ LET W == any_copy_assign(AnyNow, a, o) IN
       /\ AnyBecome(W)
       /\ last' = OpErr("any_copy_assignment", a, o, W.err)

\* a = std::move(o);
any_move_assignment(a, o) ==
  /\ an[a].live
  /\ an[o].live
  /\ AnyBecome(any_move_assign(AnyNow, a, o))
  /\ last' = Op("any_move_assignment", a, o, NoValue)

\* a = value;
any_value_assignment(a, T, v, how) ==
  /\ an[a].live
  /\ LET W == any_value_assign(AnyNow, a, T, v, how) IN
       /\ AnyBecome(W)
       /\ last' = OpErr("any_value_assignment", a, 0, W.err)

\* a.emplace<T>(args...);
any_emplace_op(a, T, v, how) ==
  /\ an[a].live
  /\ LET W == any_emplace(AnyNow, a, T, v, how) IN
       /\ AnyBecome(W)
       /\ last' = OpErr("any_emplace", a, 0, W.err)

\* a.reset();
any_reset_op(a) ==
  /\ an[a].live
  /\ AnyBecome(any_reset(AnyNow, a))
  /\ last' = Op("any_reset", a, 0, NoValue)

\* a.swap(o); swap(a, o);
any_swap_op(a, o) ==
  /\ an[a].live
  /\ an[o].live
  /\ AnyBecome(any_swap(AnyNow, a, o))
  /\ last' = Op("any_swap", a, o, NoValue)

\* any_cast<T>(&a); last keeps T as src.
any_cast_pointer_op(a, T) ==
  /\ an[a].live
  /\ AnyBecome(AnyNow)
  /\ \E r \in any_cast_pointer(an[a], T) :
       last' = [Op("any_cast_pointer", a, T, [has |-> r.has, val |-> r.val])
                  EXCEPT !.err = r.err]

\* any_cast<T &>(a); any_cast<T>(a);
any_cast_reference_op(a, T) ==
  /\ an[a].live
  /\ AnyBecome(AnyNow)
  /\ \E r \in any_cast_reference(an[a], T) :
       last' = [Op("any_cast_reference", a, T, [has |-> r.has, val |-> r.val])
                  EXCEPT !.err = r.err]

\* any_cast<T>(std::move(a)): the value is moved out of the contained object,
\* which stays in a.
any_cast_rvalue_op(a, T) ==
  /\ an[a].live
  /\ \E r \in any_cast_reference(an[a], T) :
       /\ AnyBecome(IF r.err = "none"
                      THEN [AnyNow EXCEPT !.an[a].obj.val = moved_from(T, @)]
                      ELSE AnyNow)
       /\ last' = [Op("any_cast_rvalue", a, T, [has |-> r.has, val |-> r.val])
                     EXCEPT !.err = r.err]

\* The types a pointer cast can name: typeid(void) for T = void.
CastTypes == AnyTypes \cup {Void}

AnyNext ==
  \/ \E a \in AnyIds : any_default_ctor(a)
  \/ \E a \in AnyIds : \E o \in AnyIds \ {a} : any_copy_ctor(a, o)
  \/ \E a \in AnyIds : \E o \in AnyIds \ {a} : any_move_ctor(a, o)
  \/ \E a \in AnyIds, T \in AnyTypes :
       \E v \in ValuesOf(T), how \in Ways(T) : any_value_ctor(a, T, v, how)
  \/ \E a \in AnyIds : any_dtor(a)
  \/ \E a \in AnyIds, o \in AnyIds : any_copy_assignment(a, o)
  \/ \E a \in AnyIds, o \in AnyIds : any_move_assignment(a, o)
  \/ \E a \in AnyIds, T \in AnyTypes :
       \E v \in ValuesOf(T), how \in Ways(T) : any_value_assignment(a, T, v, how)
  \/ \E a \in AnyIds, T \in AnyTypes :
       \E v \in ValuesOf(T), how \in Ways(T) : any_emplace_op(a, T, v, how)
  \/ \E a \in AnyIds : any_reset_op(a)
  \/ \E a \in AnyIds, o \in AnyIds : any_swap_op(a, o)
  \/ \E a \in AnyIds, T \in CastTypes : any_cast_pointer_op(a, T)
  \/ \E a \in AnyIds, T \in AnyTypes : any_cast_reference_op(a, T)
  \/ \E a \in AnyIds, T \in AnyTypes : any_cast_rvalue_op(a, T)

AnySpec == Init /\ [][AnyNext]_vars

\* ------------------------------------------------------------ properties
\* The live shared handles that reference control block c.
Holders(c) == {h \in SharedIds : sh[h].live /\ sh[h].ctrl = c}

\* The threads' shared_buffer objects whose ctrl_ is c.
ConcHolders(c) ==
  {<<t, s>> \in Threads \X Slots : th[t].hs[s].live /\ th[t].hs[s].ctrl = c}

\* The step just taken was operation `name` on object h (with operand o).
Did(name, h) == last'.op = name /\ last'.dst = h

Did2(name, h, o) == last'.op = name /\ last'.dst = h /\ last'.src = o

\* C1: shared_buffer::release() returns a record if and only if the handle's
\* refcount is exactly 1 at the moment of the call; on an empty handle and on
\* a handle whose lineage has two or more live copies it returns no value.
C1_ReleaseIffUnique ==
  [][\A h \in SharedIds :
       Did("shared_release", h) =>
         /\ last'.ret.has <=> use_count(h) = 1
         /\ sh[h].ctrl = Null => ~last'.ret.has
         /\ Cardinality(Holders(sh[h].ctrl)) >= 2 => ~last'.ret.has]_vars

\* A release() by the only owner has returned a record.
C1_Witness ==
  /\ last.op = "shared_release"
  /\ last.ret.has
  /\ last.ret.val.ptr # Null

\* C2: when shared_buffer::release() succeeds, the record returned carries
\* exactly the pre-release (ptr, count, location, deleter), no deleter has been
\* invoked, the control block is freed, and the handle is empty afterwards
\* (false boolean, null data, size 0, use_count 0).
C2_ReleaseHandsOver ==
  [][\A h \in SharedIds :
       (Did("shared_release", h) /\ last'.ret.has) =>
         LET c == sh[h].ctrl IN
         /\ last'.ret.val = shared_state(h)
         /\ last'.ret.val = released_buffer(cb[c].ptr, cb[c].size, cb[c].deleter,
                                            cb[c].location)
         /\ calls' = calls
         /\ cb[c].alloc /\ ~cb'[c].alloc
         /\ ~shared_bool(h)'
         /\ shared_data(h)' = Null
         /\ shared_size(h)' = 0
         /\ use_count(h)' = 0]_vars

\* A release() has handed over a buffer with its deleter, which nobody called.
C2_Witness ==
  /\ last.op = "shared_release"
  /\ last.ret.has
  /\ last.ret.val.deleter # NoDeleter
  /\ calls[last.ret.val.ptr] = <<>>
  /\ ~shared_bool(last.dst)

\* C3: when shared_buffer::release() fails because another copy exists,
\* nothing changes: the handle still references the same control block, the
\* refcount is what it was, no deleter is invoked, and every other copy of the
\* lineage is unaffected.
C3_FailedReleaseChangesNothing ==
  [][\A h \in SharedIds :
       (Did("shared_release", h) /\ ~last'.ret.has /\ sh[h].ctrl # Null) =>
         /\ Cardinality(Holders(sh[h].ctrl)) >= 2
         /\ sh' = sh
         /\ cb' = cb
         /\ calls' = calls
         /\ recs' = recs
         /\ uq' = uq]_vars

\* A release() on one of two copies has failed, and both copies still count 2.
C3_Witness ==
  /\ last.op = "shared_release"
  /\ ~last.ret.has
  /\ use_count(last.dst) = 2
  /\ Cardinality(Holders(sh[last.dst].ctrl)) = 2

\* C4: for one shared-handle lineage, across any sequence of copy, move,
\* assignment, swap, reset, destruction and release, the buffer's deleter is
\* invoked at most once, and never while a live handle still references the
\* control block; a transfer record is never handed out while another live
\* handle shares the buffer.
C4_DeleterAtMostOnceAndNotWhileShared ==
  /\ \A p \in Ptrs : Len(calls[p]) <= 1
  /\ \A h \in SharedIds :
       (sh[h].live /\ sh[h].ctrl # Null) =>
         /\ cb[sh[h].ctrl].alloc
         /\ calls[cb[sh[h].ctrl].ptr] = <<>>
         /\ \A rb \in recs : rb.ptr # cb[sh[h].ctrl].ptr

\* A lineage that had two copies has been torn down by its last owner, which
\* called the deleter.
C4_Witness ==
  /\ last.op \in {"shared_reset", "shared_dtor"}
  /\ last.ran
  /\ \E h \in SharedIds \ {last.dst} : sh[h].live
  /\ \A h \in SharedIds : sh[h].ctrl = Null
  /\ \E p \in Ptrs : calls[p] = <<"delA">>

\* C5: when several threads concurrently copy, reset, destroy and release
\* independent copies of one shared lineage, in every interleaving of the
\* atomic fetch_add / fetch_sub / compare-and-swap steps the control block is
\* freed exactly once, and no thread reads or writes the control block after
\* it has been freed: no access to a deleted block has happened, no block has
\* been deleted twice, every handle that still refers to the block finds it
\* in place, and once no handle refers to it the block has been deleted.
C5_NoDoubleFreeNoUseAfterFree ==
  /\ ~uaf
  /\ \A c \in CtrlIds : freed[c] <= 1 /\ (freed[c] = 1 => ~cb[c].alloc)
  /\ \A c \in CtrlIds : ConcHolders(c) # {} => cb[c].alloc /\ freed[c] = 0
  /\ ConcHolders(1) = {} => freed[1] = 1

\* The threads have made a copy and dropped every handle but that one's
\* empty shell; the last decrement's thread has run the deleter and deleted
\* the block.
C5_Witness ==
  /\ last.op = "conc_delete"
  /\ freed[1] = 1
  /\ ConcHolders(1) = {}
  /\ calls[1] = <<"delA">>
  /\ \E t \in Threads : th[t].hs["b"].live

\* C6: last one out frees it.  For a shared lineage on which no release()
\* succeeds, once every handle of the lineage has been reset or destroyed, the
\* deleter (if present) has been invoked exactly once on the buffer pointer
\* and the control block has been freed; the buffer is never leaked.  As a
\* property of steps: the step that takes a control block's last live handle
\* away, other than a successful release(), frees the block and calls its
\* deleter, if it has one, on its pointer, for the first time; and no control
\* block is ever left alive with no live handle.
C6_LastOneOutFreesIt ==
  [][\A c \in CtrlIds :
       /\ cb'[c].alloc => Holders(c)' # {}
       /\ (cb[c].alloc /\ Holders(c)' = {} /\ ~last'.ret.has) =>
            /\ ~cb'[c].alloc
            /\ calls[cb[c].ptr] = <<>>
            /\ calls' = IF cb[c].deleter # NoDeleter
                          THEN [calls EXCEPT ![cb[c].ptr] = <<cb[c].deleter>>]
                          ELSE calls]_vars

\* The last of two copies has been destroyed, and that call ran the deleter.
C6_Witness ==
  /\ last.op = "shared_dtor"
  /\ last.ran
  /\ \A c \in CtrlIds : ~cb[c].alloc
  /\ \A h \in SharedIds : ~sh[h].live
  /\ \E p \in Ptrs : Len(calls[p]) = 1

\* C7: copy-constructing a non-empty shared handle makes use_count() of both
\* the original and the copy the pre-copy value plus exactly 1; destroying or
\* resetting the copy makes the original's use_count() drop by exactly 1.
C7_CopyCountsUpAndDown ==
  [][\A h \in SharedIds, o \in SharedIds :
       /\ (Did2("shared_copy_ctor", h, o) /\ shared_bool(o)) =>
            /\ use_count(o)' = use_count(o) + 1
            /\ use_count(h)' = use_count(o) + 1
            /\ sh'[h].ctrl = sh[o].ctrl
       /\ ((Did("shared_dtor", h) \/ Did("shared_reset", h)) /\ o # h
             /\ sh[o].live /\ shared_bool(o) /\ sh[o].ctrl = sh[h].ctrl) =>
            use_count(o)' = use_count(o) - 1]_vars

\* A copy has just been made, and original and copy both count 2.
C7_Witness ==
  /\ last.op = "shared_copy_ctor"
  /\ use_count(last.src) = 2
  /\ use_count(last.dst) = 2

\* C8, as stated: move-constructing or move-assigning a shared handle
\* transfers the control-block reference without changing that control
\* block's refcount; the source handle is empty afterwards and the destination
\* reports the use_count() the source had.
C8_MoveKeepsRefcount_AsStated ==
  [][\A h \in SharedIds, o \in SharedIds :
       (Did2("shared_move_ctor", h, o) \/ Did2("shared_move_assign", h, o)) =>
         /\ sh'[h].ctrl = sh[o].ctrl
         /\ sh[o].ctrl # Null => cb'[sh[o].ctrl].ref = cb[sh[o].ctrl].ref
         /\ ~shared_bool(o)'
         /\ use_count(h)' = use_count(o)]_vars

\* C8, amended: a move construction, or a move assignment between two
\* different handles, transfers the control-block reference and leaves the
\* source empty; the control block's refcount is unchanged and the destination
\* reports the use_count() the source had, unless the destination itself
\* referenced that same control block before the assignment, in which case its
\* own reference is dropped and the refcount, and the use_count() reported, is
\* one less.  A move assignment of a handle to itself changes nothing.
C8_MoveKeepsRefcount ==
  [][\A h \in SharedIds, o \in SharedIds :
       /\ ((Did2("shared_move_ctor", h, o) \/ Did2("shared_move_assign", h, o))
            /\ h # o) =>
            LET c == sh[o].ctrl
                own == IF sh[h].live /\ c # Null /\ sh[h].ctrl = c THEN 1 ELSE 0
            IN
            /\ sh'[h].ctrl = c
            /\ ~shared_bool(o)'
            /\ c # Null => cb'[c].ref = cb[c].ref - own
            /\ use_count(h)' = use_count(o) - own
       /\ Did2("shared_move_assign", h, h) =>
            /\ sh' = sh
            /\ cb' = cb
            /\ calls' = calls]_vars

\* A handle has been move-assigned from another, non-empty, one.
C8_Witness ==
  /\ last.op = "shared_move_assign"
  /\ last.src # last.dst
  /\ shared_bool(last.dst)
  /\ ~shared_bool(last.src)
  /\ use_count(last.dst) = 1

\* C9: upgrading any unique handle that owns a buffer (non-null pointer) into
\* a shared handle leaves the source unique handle empty, does not invoke the
\* deleter at conversion time, makes the shared handle own the same
\* pointer/count/location, and the original deleter is invoked exactly once,
\* when the last shared copy is reset or destroyed.
C9_UpgradeKeepsTheBuffer ==
  [][\A h \in SharedIds, u \in UniqueIds :
       (Did2("shared_from_unique", h, u) /\ unique_bool(u)) =>
         /\ ~unique_bool(u)' /\ unique_get(u)' = Null /\ unique_size(u)' = 0
         /\ calls' = calls
         /\ shared_bool(h)'
         /\ shared_data(h)' = unique_get(u)
         /\ shared_size(h)' = unique_size(u)
         /\ shared_location(h)' = unique_location(u)
         /\ shared_deleter(h)' = uq[u].deleter
         /\ use_count(h)' = 1]_vars

\* C10, as stated: after a unique handle is moved from (move construction or
\* move assignment), the source reports empty (false boolean conversion, null
\* pointer, size 0) and resetting or destroying the moved-from source never
\* invokes any deleter; the destination holds the source's former pointer,
\* count, location and deleter.
C10_MovedFromIsEmpty_AsStated ==
  [][\A u \in UniqueIds, o \in UniqueIds :
       /\ (Did2("unique_move_ctor", u, o) \/ Did2("unique_move_assign", u, o)) =>
            /\ ~unique_bool(o)'
            /\ unique_get(o)' = Null
            /\ unique_size(o)' = 0
            /\ unique_state(u)' = unique_state(o)
       /\ (last.op \in {"unique_move_ctor", "unique_move_assign"}
            /\ last.src = o
            /\ (Did("unique_reset", o) \/ Did("unique_dtor", o))) =>
            calls' = calls]_vars

\* C10, amended: after a unique handle is moved into a different handle (move
\* construction, or move assignment to another handle), the source reports
\* empty (false boolean conversion, null pointer, size 0) and resetting or
\* destroying the moved-from source never invokes any deleter; the destination
\* holds the source's former pointer, count, location and deleter.  A move
\* assignment of a handle to itself changes nothing: the handle keeps its
\* buffer and its deleter.
C10_MovedFromIsEmpty ==
  [][\A u \in UniqueIds, o \in UniqueIds :
       /\ ((Did2("unique_move_ctor", u, o) \/ Did2("unique_move_assign", u, o))
            /\ u # o) =>
            /\ ~unique_bool(o)'
            /\ unique_get(o)' = Null
            /\ unique_size(o)' = 0
            /\ unique_state(u)' = unique_state(o)
       /\ (last.op \in {"unique_move_ctor", "unique_move_assign"}
            /\ last.src = o /\ last.dst # o
            /\ (Did("unique_reset", o) \/ Did("unique_dtor", o))) =>
            calls' = calls
       /\ Did2("unique_move_assign", u, u) =>
            /\ uq' = uq
            /\ calls' = calls]_vars

\* A handle that owned a buffer with a deleter has been move-assigned into
\* another handle.
C10_Witness ==
  /\ last.op = "unique_move_assign"
  /\ last.src # last.dst
  /\ unique_bool(last.dst)
  /\ uq[last.dst].deleter = "delA"
  /\ ~unique_bool(last.src)
  /\ uq[last.src].live

\* C11: round trip.  Releasing a unique handle and reconstructing a unique
\* handle from the resulting record preserves pointer, count and location (and
\* the deleter); release() itself invokes no deleter and leaves the original
\* handle empty; and the original deleter is invoked exactly once over the
\* full lifetime: no pointer ever sees a second deleter call, a pointer that a
\* live handle or a held record still carries has seen none, and the reset or
\* destruction of the handle that owns it invokes the deleter on it.
C11_UniqueRoundTrip ==
  /\ [][\A u \in UniqueIds :
          /\ Did("unique_release", u) =>
               /\ last'.ret = Some(unique_state(u))
               /\ calls' = calls
               /\ ~unique_bool(u)' /\ unique_get(u)' = Null /\ unique_size(u)' = 0
          /\ (last.op = "unique_release" /\ Did("unique_from_record", u)
               /\ last'.ret = last.ret) =>
               /\ unique_get(u)' = last.ret.val.ptr
               /\ unique_size(u)' = last.ret.val.count
               /\ unique_location(u)' = last.ret.val.location
               /\ uq'[u].deleter = last.ret.val.deleter
               /\ calls' = calls
          /\ ((Did("unique_reset", u) \/ Did("unique_dtor", u))
               /\ unique_bool(u) /\ uq[u].deleter # NoDeleter) =>
               calls' = [calls EXCEPT ![unique_get(u)] = <<uq[u].deleter>>]]_vars
  /\ [](\A p \in Ptrs :
          /\ Len(calls[p]) <= 1
          /\ ((\E u \in UniqueIds : uq[u].live /\ unique_get(u) = p)
               \/ (\E rb \in recs : rb.ptr = p)) => calls[p] = <<>>)

\* A handle has just been rebuilt from the record of a released handle that
\* owned a Device buffer with a deleter.
C11_Witness ==
  /\ last.op = "unique_from_record"
  /\ last.ret.val.ptr # Null
  /\ unique_get(last.dst) = last.ret.val.ptr
  /\ unique_location(last.dst) = "Device"
  /\ uq[last.dst].deleter = "delA"
  /\ recs = {}

\* The live unique handles whose data_ is p.
UniqueOwners(p) == {u \in UniqueIds : uq[u].live /\ uq[u].data = p}

\* C12: exclusive ownership.  In every reachable state, after any sequence of
\* adopting construction (from a raw pointer or from a transfer record), move,
\* move assignment, swap, release and reset, a given buffer pointer is owned
\* by at most one live unique handle (and by no handle while a record carries
\* it), so no buffer's deleter can be run by two different handles: no
\* pointer has seen more than one deleter call.
C12_ExclusiveOwnership ==
  \A p \in Ptrs :
    /\ Cardinality(UniqueOwners(p)) <= 1
    /\ (\E rb \in recs : rb.ptr = p) => UniqueOwners(p) = {}
    /\ Len(calls[p]) <= 1

\* Two live handles have just been swapped; one of them owns the buffer, the
\* other owns nothing.
C12_Witness ==
  /\ last.op = "unique_swap"
  /\ last.src # last.dst
  /\ unique_bool(last.dst)
  /\ ~unique_bool(last.src)
  /\ UniqueOwners(unique_get(last.dst)) = {last.dst}

\* C13: reset() on a unique handle that owns a pointer invokes the deleter
\* exactly once on that pointer when a deleter is present and invokes nothing
\* when the deleter is absent; afterwards the handle reports empty (false
\* boolean, null pointer) and a later reset() or destruction (of the handle,
\* empty as it is) invokes no deleter.
C13_ResetRunsDeleterOnce ==
  [][\A u \in UniqueIds :
       /\ (Did("unique_reset", u) /\ unique_bool(u)) =>
            /\ calls' = IF uq[u].deleter # NoDeleter
                          THEN [calls EXCEPT ![unique_get(u)] = Append(@, uq[u].deleter)]
                          ELSE calls
            /\ ~unique_bool(u)'
            /\ unique_get(u)' = Null
            /\ uq'[u].deleter = NoDeleter
       /\ ((Did("unique_reset", u) \/ Did("unique_dtor", u))
            /\ ((last.op = "unique_reset" /\ last.dst = u) \/ ~unique_bool(u))) =>
            calls' = calls]_vars

\* A handle that owned a buffer with a deleter has just been reset.
C13_Witness ==
  /\ last.op = "unique_reset"
  /\ last.ran
  /\ uq[last.dst].live
  /\ ~unique_bool(last.dst)
  /\ \E p \in Ptrs : calls[p] = <<"delA">>

\* C14: if the deleter raises during reset() or destruction of a unique
\* handle, or during the last-owner teardown of a shared handle, the failure
\* is caught and never propagates to the caller, and the teardown still
\* completes: the handle ends empty and (for shared) the control block is
\* freed.
C14_ThrowingDeleterIsSwallowed ==
  [][/\ ~last'.threw
     /\ \A u \in UniqueIds :
          ((Did("unique_reset", u) \/ Did("unique_dtor", u))
           /\ unique_bool(u) /\ Raises(uq[u].deleter)) =>
            /\ calls' = Invoke(calls, uq[u].deleter, unique_get(u))
            /\ ~unique_bool(u)'
            /\ unique_get(u)' = Null
            /\ uq'[u].deleter = NoDeleter
            /\ Did("unique_dtor", u) => ~uq'[u].live
     /\ \A c \in CtrlIds :
          /\ (cb[c].alloc /\ Raises(cb[c].deleter) /\ Holders(c)' = {}) =>
               /\ calls' = Invoke(calls, cb[c].deleter, cb[c].ptr)
               /\ ~cb'[c].alloc
          /\ (cb[c].alloc /\ calls'[cb[c].ptr] # calls[cb[c].ptr]) =>
               /\ ~cb'[c].alloc
               /\ Holders(c)' = {}
               /\ \A h \in SharedIds : sh'[h].ctrl # c]_vars

\* The last of two copies of a shared handle whose deleter throws has been
\* destroyed: the deleter was called, nothing was thrown at the caller and
\* the block is gone.
C14_Witness ==
  /\ last.op = "shared_dtor"
  /\ last.ran
  /\ ~last.threw
  /\ \E p \in Ptrs : calls[p] = <<ThrowingDeleter>>
  /\ \A c \in CtrlIds : ~cb[c].alloc
  /\ \A h \in SharedIds : sh[h].ctrl = Null

\* C15: a unique handle constructed with a null pointer and zero count is
\* observably equivalent to a default-constructed empty handle and holds no
\* deleter: boolean conversion, data, size, location, get_deleter and the
\* record returned by release() are those of a default-constructed handle, and
\* the supplied deleter is never invoked.  (The same for a shared handle:
\* boolean, data, size, location, use_count and what release() returns are
\* those of a default-constructed one.)
C15_NullHandleIsDefault ==
  [][/\ \A u \in UniqueIds :
          (Did("unique_adopt_ctor", u) /\ unique_get(u)' = Null /\ unique_size(u)' = 0) =>
            /\ unique_bool(u)' = (EmptyUnique.data # Null)
            /\ unique_location(u)' = EmptyUnique.location
            /\ uq'[u].deleter = EmptyUnique.deleter
            /\ unique_release_rec(uq'[u]) = unique_release_rec(EmptyUnique)
            /\ calls' = calls
     /\ \A h \in SharedIds :
          (Did("shared_ptr_ctor", h) /\ shared_data(h)' = Null /\ shared_size(h)' = 0) =>
            /\ sh'[h] = SObj(TRUE, Null)
            /\ calls' = calls]_vars

\* C16: every View, including the state of every unique handle and every
\* view() produced by a unique or shared handle after any sequence of
\* operations, satisfies ptr == null if and only if count == 0.
C16_ViewNullIffEmpty ==
  /\ \A u \in UniqueIds :
       uq[u].live => ((unique_state(u).ptr = Null) <=> (unique_state(u).count = 0))
  /\ \A h \in SharedIds :
       sh[h].live => ((shared_state(h).ptr = Null) <=> (shared_state(h).count = 0))

\* C17: for all valid constructor arguments (block_size > 0, block_count >
\* 0), immediately after pool construction capacity() == block_count,
\* block_size() == the requested block_size, and available() == block_count
\* (the construction fails only if the arena cannot be allocated).
C17_PoolAsRequested ==
  [][last'.op = "pool_ctor" =>
       /\ (last'.dst > 0 /\ last'.src > 0) => last'.err \in {"none", "bad_alloc"}
       /\ last'.err = "none" =>
            /\ pool'.live
            /\ capacity' = last'.src
            /\ block_size' = last'.dst
            /\ available' = last'.src]_vars

\* A pool of MaxBlocks blocks of MaxBlockSize elements has just been built.
C17_Witness ==
  /\ last.op = "pool_ctor"
  /\ last.err = "none"
  /\ pool.live
  /\ capacity = MaxBlocks
  /\ block_size = MaxBlockSize
  /\ available = MaxBlocks

\* The live handles that hold a block of the pool.
Leased == {u \in PoolHandles : uq[u].live /\ uq[u].data # Null /\ uq[u].deleter = PoolDeleter}

\* C18: for a pool of capacity N with N handles outstanding, allocate() fails
\* with ResourceExhausted (std::runtime_error) and leaves the pool (and the
\* handles) unchanged; after any one outstanding handle is reset or destroyed
\* a block is available again, and the next allocate() succeeds.
C18_ExhaustedThenRefilled ==
  [][\A u \in UniqueIds :
       /\ (Did("pool_allocate", u) /\ Cardinality(Leased) = capacity) =>
            /\ last'.err = "runtime_error"
            /\ pool' = pool
            /\ uq' = uq
       /\ ((Did("unique_reset", u) \/ Did("unique_dtor", u)) /\ u \in Leased) =>
            available' = available + 1
       /\ (Did("pool_allocate", u) /\ available > 0) =>
            /\ last'.err = "none"
            /\ unique_bool(u)'
            /\ uq'[u].deleter = PoolDeleter
            /\ available' = available - 1
       /\ (Did("pool_allocate", u) /\ last.op \in {"unique_reset", "unique_dtor"}
            /\ last.ran) => last'.err = "none"]_vars

\* Every block of the pool is out and an allocate() has just failed.
C18_Witness ==
  /\ last.op = "pool_allocate"
  /\ last.err = "runtime_error"
  /\ capacity > 0
  /\ Cardinality(Leased) = capacity
  /\ available = 0

\* C19: given an Alignment-aligned arena base, every address returned by
\* allocate() is a multiple of the configured Alignment, for every element
\* size, block_size and block_count.
C19_AllocateIsAligned ==
  [][\A u \in UniqueIds :
       (Did("pool_allocate", u) /\ last'.err = "none" /\ pool.data % pool.align = 0) =>
         unique_get(u)' % pool.align = 0]_vars

\* C20: LIFO reuse.  If a handle holding block address A is reset or
\* destroyed and allocate() is called next, with no intervening allocation or
\* return, that allocate() returns address A: the return puts A on top of the
\* free list, and a successful allocate() hands out the top of the free list
\* as it stands.
C20_LifoReuse ==
  [][\A u \in UniqueIds :
       /\ ((Did("unique_reset", u) \/ Did("unique_dtor", u)) /\ u \in Leased) =>
            /\ pool'.free # <<>>
            /\ pool'.free[Len(pool'.free)] = unique_get(u)
       /\ (Did("pool_allocate", u) /\ pool.free # <<>>) =>
            /\ last'.err = "none"
            /\ unique_get(u)' = pool.free[Len(pool.free)]]_vars

\* Both blocks of a pool were handed out and returned, and the block returned
\* last (the arena's first) has just been handed out again.
C20_Witness ==
  /\ last.op = "pool_allocate"
  /\ last.err = "none"
  /\ pool.block_count = 2
  /\ unique_get(last.dst) = pool.data
  /\ pool.free = <<pool.data + pool.stride * pool.elem>>

\* The free list of the pool with n blocks still to be handed out for the
\* first time, and none returned.
Untouched(n) ==
  SubSeq(free_list(pool.data, pool.stride, pool.block_count, pool.elem), 1, n)

\* C21 as stated: the pool of MemPoolTest.Alignment hands out D, D+128, D+256
\* in this order.
C21_AlignmentScenario_AsStated ==
  [][\A u \in PoolHandles : \A n \in 1..TestBlockCount :
       (Did("pool_allocate", u) /\ pool.free = Untouched(n)) =>
         unique_get(u)' = pool.data + (TestBlockCount - n) * 128]_vars

\* C21 (amended): for a pool of 1-byte elements with alignment 128,
\* block_size 100 and block_count 3, whose arena base D is a multiple of 128,
\* three sequential allocate() calls return D+256, D+128 and D, in this order
\* (the free list is built in ascending order and allocate() takes its last
\* entry); a fourth call fails with std::runtime_error; returning the block
\* handed out first (D+256) and allocating again returns D+256.
C21_AlignmentScenario ==
  [][\A u \in PoolHandles :
       /\ \A n \in 1..TestBlockCount :
            (Did("pool_allocate", u) /\ pool.free = Untouched(n)) =>
              /\ pool.data % 128 = 0
              /\ last'.err = "none"
              /\ unique_get(u)' = pool.data + (n - 1) * 128
              /\ pool'.free = Untouched(n - 1)
       /\ (Did("pool_allocate", u) /\ pool.free = Untouched(0)) =>
            last'.err = "runtime_error"
       /\ ((Did("unique_reset", u) \/ Did("unique_dtor", u))
            /\ pool.free = Untouched(0) /\ unique_get(u) = pool.data + 256) =>
            pool'.free = <<pool.data + 256>>
       /\ (Did("pool_allocate", u) /\ pool.free = <<pool.data + 256>>) =>
            unique_get(u)' = pool.data + 256]_vars

\* The three blocks are out, taken in the order D+256, D+128, D by b1, b2 and
\* b3, and a fourth allocate() has just failed.
C21_Witness ==
  /\ last.op = "pool_allocate"
  /\ last.err = "runtime_error"
  /\ pool.block_size = TestBlockSize
  /\ pool.stride = 128
  /\ unique_get(1) = pool.data + 256
  /\ unique_get(2) = pool.data + 128
  /\ unique_get(3) = pool.data

\* The released_buffer records that hold a block of the pool.
InRecords == {rb \in recs : rb.ptr # Null /\ rb.deleter = PoolDeleter}

\* C22 as stated: the free-list length is at most block_count and equals
\* block_count minus the number of blocks leased to live handles.
C22_FreeListAccounts_AsStated ==
  pool.live =>
    /\ available <= capacity
    /\ available + Cardinality(Leased) = capacity

\* C22 (amended): in every reachable state of a pool, the free-list length is
\* at most block_count and equals block_count minus the number of blocks that
\* are out: those held by live handles and those held in released_buffer
\* records that release() produced and nobody has disposed of yet.
C22_FreeListAccounts ==
  pool.live =>
    /\ available <= capacity
    /\ available + Cardinality(Leased) + Cardinality(InRecords) = capacity

\* One block is held by a handle, the other by a record a handle released.
C22_Witness ==
  /\ pool.live
  /\ capacity = 2
  /\ available = 0
  /\ Cardinality(Leased) = 1
  /\ Cardinality(InRecords) = 1

\* The threads whose handle holds a block, and the start addresses of the
\* pool's blocks.
Holding == {t \in PoolThreads : pth[t].buf.live /\ pth[t].buf.data # Null}

BlockAddresses ==
  {pool.data + i * pool.stride * pool.elem : i \in 0..(pool.block_count - 1)}

\* C23: under any interleaving of threads calling allocate() and tearing down
\* the handle they got, no block address is held by two live handles at once,
\* no address appears twice in the free list, no leased address is in the
\* free list, and every issued address is base + i*stride for a block index
\* i < block_count.
C23_NoBlockIssuedTwice ==
  /\ \A t \in Holding : \A w \in Holding \ {t} : pth[t].buf.data # pth[w].buf.data
  /\ \A i \in 1..Len(pool.free) : \A j \in 1..Len(pool.free) :
       i # j => pool.free[i] # pool.free[j]
  /\ \A t \in Holding : \A i \in 1..Len(pool.free) : pool.free[i] # pth[t].buf.data
  /\ \A t \in Holding : pth[t].buf.data \in BlockAddresses

\* Two threads hold the two blocks of the pool while a third one has found
\* the pool exhausted.
C23_Witness ==
  /\ pool.live
  /\ pool.block_count = 2
  /\ Cardinality(Holding) = 2
  /\ \E t \in PoolThreads : pth[t].pc = "done" /\ pth[t].err = "runtime_error"

\* C25: under fair scheduling, with more threads than blocks each calling
\* allocate() and then dropping the handle it obtained: every call eventually
\* returns (a handle or std::runtime_error), a thread never holds the pool's
\* mutex when its handle's deleter is about to run (so the deleter's own
\* locking cannot deadlock), and once all threads have finished
\* available() == capacity().
C25_EveryCallReturns ==
  /\ \A t \in PoolThreads : <>(pth[t].pc = "done")
  /\ [](\A t \in PoolThreads : pth[t].pc = "holding" => mtx # t)
  /\ []((\A t \in PoolThreads : pth[t].pc = "done") => available = capacity)
  /\ <>[](pool.live /\ \A t \in PoolThreads : pth[t].pc = "done")

\* More threads than blocks: all have finished, one of them empty-handed, and
\* every block is back.
C25_Witness ==
  /\ pool.live
  /\ NumPoolThreads > capacity
  /\ \A t \in PoolThreads : pth[t].pc = "done"
  /\ \E t \in PoolThreads : pth[t].err = "runtime_error"
  /\ \E t \in PoolThreads : pth[t].err = "none"
  /\ available = capacity

\* C24: constructing a pool with block_size == 0 or block_count == 0 fails
\* with std::invalid_argument before any arena is allocated (also when the
\* allocation would have failed): no pool object and no free list come into
\* existence, and no arena is left behind.
C24_ZeroSizesRejected ==
  [][\A bs \in BlockSizeArgs, bc \in BlockCountArgs :
       (last'.op = "pool_ctor" /\ last'.dst = bs /\ last'.src = bc
          /\ (bs = 0 \/ bc = 0)) =>
         /\ last'.err = "invalid_argument"
         /\ ~pool'.live
         /\ pool'.free = <<>>
         /\ pool'.data = Null
         /\ arenas' = arenas]_vars

\* A constructor call with a block_count of 0 has just failed, and no arena
\* exists.
C24_Witness ==
  /\ last.op = "pool_ctor"
  /\ last.dst > 0
  /\ last.src = 0
  /\ last.err = "invalid_argument"
  /\ ~pool.live
  /\ arenas = {}

\* C26: copy-constructing or copy-assigning from an any that holds a
\* move-only value fails with std::logic_error, and the source still holds its
\* value (nothing else changes either); copying an any that holds a value of
\* a copyable type (one whose copy constructor completes) yields two anys that
\* both hold equal values.
C26_CopyOfMoveOnlyFails ==
  [][\A a \in AnyIds, o \in AnyIds :
       ((Did2("any_copy_ctor", a, o) \/ Did2("any_copy_assignment", a, o))
          /\ has_value(an[o])) =>
         /\ ~is_copy_constructible(an[o].manager) =>
              /\ last'.err = "logic_error"
              /\ an' = an
              /\ net' = net
         /\ (is_copy_constructible(an[o].manager) /\ ~copy_throws(an[o].manager)) =>
              /\ last'.err = "none"
              /\ has_value(an'[a])
              /\ has_value(an'[o])
              /\ an'[o].obj = an[o].obj
              /\ an'[a].obj = an'[o].obj
              /\ any_type(an'[a]) = any_type(an[o])]_vars

\* A copy construction from an any that holds a MoveOnly has just failed.
C26_Witness ==
  /\ last.op = "any_copy_ctor"
  /\ last.err = "logic_error"
  /\ an[last.src].live
  /\ an[last.src].obj.type = "MoveOnly"
  /\ ~an[last.dst].live

\* C27 as stated: after a move construction or a move assignment from a
\* non-empty any the source is empty.
C27_MoveEmptiesSource_AsStated ==
  [][\A a \in AnyIds, o \in AnyIds :
       ((Did2("any_move_ctor", a, o) \/ Did2("any_move_assignment", a, o))
          /\ has_value(an[o])) =>
         /\ ~has_value(an'[o])
         /\ has_value(an'[a])
         /\ an'[a].obj = an[o].obj]_vars

\* C27 (amended): move-constructing an any, or move-assigning to another any
\* object, from a non-empty any leaves the source empty (has_value() false)
\* and the destination holding the source's former value and type; the
\* destination's previous value, if any, is destroyed.  Move-assigning a
\* non-empty any to itself leaves it holding its value and type.
C27_MoveEmptiesSource ==
  [][\A a \in AnyIds, o \in AnyIds :
       ((Did2("any_move_ctor", a, o) \/ Did2("any_move_assignment", a, o))
          /\ has_value(an[o])) =>
         /\ has_value(an'[a])
         /\ an'[a].obj = an[o].obj
         /\ any_type(an'[a]) = any_type(an[o])
         /\ a # o =>
              /\ ~has_value(an'[o])
              /\ an'[o].obj = NoObj
              /\ net' = net - (IF has_value(an[a]) THEN 1 ELSE 0)
         /\ a = o => (an' = an /\ net' = net)]_vars

\* A move assignment from another any has just happened: the source is empty
\* and the one contained object there is is the destination's.
C27_Witness ==
  /\ last.op = "any_move_assignment"
  /\ last.dst # last.src
  /\ an[last.src].live
  /\ ~has_value(an[last.src])
  /\ has_value(an[last.dst])
  /\ net = 1

\* C28: copy assignment gives the strong guarantee: if copying the right-hand
\* side's value fails, the left-hand any still holds its previous value and
\* type unchanged (and so does every other any).
C28_CopyAssignStrongGuarantee ==
  [][\A a \in AnyIds, o \in AnyIds :
       (Did2("any_copy_assignment", a, o) /\ last'.err # "none") =>
         /\ an'[a] = an[a]
         /\ an' = an
         /\ net' = net]_vars

\* An any holding an int was assigned an any holding a ThrowingCopy, the copy
\* threw, and the int is still there.
C28_Witness ==
  /\ last.op = "any_copy_assignment"
  /\ last.err = "runtime_error"
  /\ an[last.src].obj.type = "ThrowingCopy"
  /\ has_value(an[last.dst])
  /\ an[last.dst].obj.type = "int"

\* C29: any_cast to type T on an any succeeds exactly when the any currently
\* holds a value of type T: the pointer form returns null and the
\* reference/value forms fail with bad_any_cast when the any is empty or holds
\* another type, and otherwise they give access to the held value.
C29_CastSucceedsIffHeld ==
  [][\A a \in AnyIds, T \in CastTypes :
       /\ Did2("any_cast_pointer", a, T) =>
            IF has_value(an[a]) /\ an[a].obj.type = T
              THEN last'.err = "none" /\ last'.ret.has /\ last'.ret.val = an[a].obj
              ELSE last'.err = "none" /\ ~last'.ret.has
       /\ (Did2("any_cast_reference", a, T) \/ Did2("any_cast_rvalue", a, T)) =>
            IF has_value(an[a]) /\ an[a].obj.type = T
              THEN last'.err = "none" /\ last'.ret.has /\ last'.ret.val = an[a].obj
              ELSE last'.err = "bad_any_cast"]_vars

\* The any objects (temporaries included) whose storage holds an object.
Holds == {a \in AnyObjects : an[a].obj # NoObj}

\* C30: across any sequence of construction, emplace, reset, copy, move, swap
\* and destruction of any objects, every contained object that was
\* constructed is destroyed exactly once: the constructions less the
\* destructions are the objects the anys hold (none once all anys are gone);
\* an any reports has_value() exactly when it holds a live object, and of the
\* type its manager is for.
C30_EveryObjectDestroyedOnce ==
  /\ net = Cardinality(Holds)
  /\ \A a \in AnyObjects :
       /\ an[a].live => (has_value(an[a]) <=> a \in Holds)
       /\ has_value(an[a]) => an[a].obj.type = an[a].manager
       /\ ~an[a].live => (a \notin Holds /\ ~has_value(an[a]))
  /\ (\A a \in AnyObjects : ~an[a].live) => net = 0

\* The last any has just been destroyed, and its contained object with it.
C30_Witness ==
  /\ last.op = "any_dtor"
  /\ last.dst \in AnyIds
  /\ last.ret.has
  /\ last.ret.val.type = "MoveOnly"
  /\ \A a \in AnyObjects : ~an[a].live
  /\ net = 0

BuiltFrom(h, p, n) ==
  IF p # Null /\ n > 0
    THEN /\ sh'[h].ctrl # Null
         /\ ~cb[sh'[h].ctrl].alloc
         /\ cb'[sh'[h].ctrl].alloc
         /\ cb'[sh'[h].ctrl].ref = 1
         /\ cb'[sh'[h].ctrl].ptr = p
         /\ cb'[sh'[h].ctrl].size = n
    ELSE /\ sh'[h].ctrl = Null
         /\ cb' = cb

C32_ControlBlockIffBuffer ==
  /\ [](\A h \in SharedIds :
          sh[h].live =>
            /\ shared_bool(h) <=> shared_data(h) # Null
            /\ shared_data(h) # Null <=> shared_size(h) > 0
            /\ ~shared_bool(h) => use_count(h) = 0)
  /\ [][LET h == last'.dst IN
          /\ last'.op = "shared_ptr_ctor" =>
               \A p \in PtrArgs, n \in CountArgs, d \in DeleterArgs,
                  loc \in LocationArgs :
                 shared_ptr_ctor(h, p, n, d, loc) => BuiltFrom(h, p, n)
          /\ last'.op = "shared_from_record" =>
               \A rb \in RecordArgs :
                 shared_from_record(h, rb) => BuiltFrom(h, rb.ptr, rb.count)
          /\ last'.op = "shared_from_unique" =>
               \A u \in UpgradeSources :
                 shared_from_unique(h, u)
                   => BuiltFrom(h, uq[u].data, uq[u].count)
          /\ last'.op = "shared_default_ctor" =>
               (sh'[h].ctrl = Null /\ cb' = cb)]_vars

\* Reached: one handle was built from a buffer and holds a block whose count
\* is 1, and another was then built from a null pointer and is empty.
C32_Witness ==
  /\ last.op = "shared_ptr_ctor"
  /\ sh[last.dst].live
  /\ sh[last.dst].ctrl = Null
  /\ nptr = MaxPtr
  /\ \E h \in SharedIds :
       /\ sh[h].live
       /\ shared_bool(h)
       /\ use_count(h) = 1
       /\ shared_size(h) > 0

\* ---------------------------------------------------------------- C33
\* C33: after reset() on a unique handle, whatever state a constructor or
\* another member function left it in, the handle is in the empty state
\* (ptr = null, count = 0, location = Host, deleter = none), and a second
\* reset() changes nothing and invokes nothing.
C33_ResetEmptiesTheHandle ==
  [][\A u \in UniqueIds :
       Did("unique_reset", u) =>
         /\ uq'[u] = EmptyUnique
         /\ unique_reset_obj(uq'[u]) = uq'[u]
         /\ unique_reset_calls(uq'[u], calls') = calls'
         /\ unique_reset_pool(uq'[u], pool') = pool']_vars

C36_StrideIsPaddedBlock ==
  pool.live =>
    LET stride_bytes == pool.stride * pool.elem
        byte_size == pool.block_size * pool.elem
    IN /\ stride_bytes % pool.align = 0
       /\ stride_bytes >= byte_size
       /\ stride_bytes - byte_size < pool.align

\* ---------------------------------------------------------------- C37
\* The constructor call that has just returned threw from the construction of
\* a block's elements.
ConstructionFailed ==
  /\ last'.op = "pool_ctor_elements"
  /\ \E i \in 1..Len(life') : life'[i].ev = "throw"

\* How many blocks that call had built before.
Constructed == Cardinality({i \in 1..Len(life') : life'[i].ev = "construct"})

\* What comes before and after the rollback's destructions: blocks 0..k-1 are
\* built in turn and block k throws; the arena is freed last, the exception is
\* re-raised, there is no pool object, no free list and no arena left.
FailedAround(k) ==
  /\ Len(life') = 2 * k + 2
  /\ \A i \in 1..k : life'[i] = Ev("construct", i - 1)
  /\ life'[k + 1] = Ev("throw", k)
  /\ \A i \in 1..k : life'[k + 1 + i].ev = "destroy"
  /\ {life'[k + 1 + i].block : i \in 1..k} = 0..(k - 1)
  /\ life'[2 * k + 2] = Ev("free", 0)
  /\ last'.err = "rethrown"
  /\ ~pool'.live
  /\ pool'.free = <<>>
  /\ arenas' = arenas

\* C37, as stated: when the construction of block k fails, exactly the blocks
\* 0..k-1 are destroyed, in reverse order (k-1 down to 0), then the arena is
\* freed, then the failure is re-raised; no free list is built and no pool
\* object survives.
C37_RollbackOnFailure_AsStated ==
  [][ConstructionFailed =>
       /\ FailedAround(Constructed)
       /\ \A i \in 1..Constructed :
            life'[Constructed + 1 + i] = Ev("destroy", Constructed - i)]_vars

\* C37, amended: the same, with the blocks 0..k-1 destroyed in the order in
\* which they were built (0 up to k-1).
C37_RollbackOnFailure ==
  [][ConstructionFailed =>
       /\ FailedAround(Constructed)
       /\ \A i \in 1..Constructed :
            life'[Constructed + 1 + i] = Ev("destroy", i - 1)]_vars

\* Reached: the construction of the third block failed after two blocks had
\* been built; both were destroyed, the arena was freed and the exception
\* left the constructor.
C37_Witness ==
  /\ last.op = "pool_ctor_elements"
  /\ last.err = "rethrown"
  /\ Len(life) = 6
  /\ life[3] = Ev("throw", 2)
  /\ life[6] = Ev("free", 0)
  /\ ~pool.live

\* ---------------------------------------------------------------- C38
\* The references to control block c that are counted in c's ref: one for
\* each live handle whose ctrl_ is c, except the handle of a call that has
\* made its decrement and not yet nulled ctrl_, and one for the new_ctrl of a
\* copy assignment that has made its increment and not yet stored it.  When
\* no member function is under way these are the live handles on c.
Dropping == {"call_deleter", "delete", "release_read", "release_delete"}

References(c) ==
  {<<t, s>> \in Threads \X Slots :
     /\ th[t].hs[s].live
     /\ th[t].hs[s].ctrl = c
     /\ ~(th[t].pc \in Dropping /\ th[t].x = s)}
  \cup
  {<<t, "new_ctrl">> : t \in {w \in Threads :
     /\ th[w].cont = "copy_assign"
     /\ th[w].hs[th[w].other].ctrl = c}}

\* C38: in every reachable state, whatever the interleaving of the threads'
\* copies, moves, assignments, swaps, resets, releases and destructions of
\* their own handles, the count of a control block that has references is at
\* least 1 and is the number of those references (the number of live handles
\* on it, whenever no call is under way), the block exists as long as it has
\* one, and a block without references exists only while its last owner is
\* tearing it down.
C38_RefcountCountsHandles ==
  \A c \in CtrlIds :
    /\ cb[c].alloc => cb[c].ref = Cardinality(References(c))
    /\ References(c) # {} => (cb[c].alloc /\ cb[c].ref >= 1)
    /\ (cb[c].alloc /\ References(c) = {}) =>
         \E t \in Threads : th[t].pc \in Dropping /\ th[t].hs[th[t].x].ctrl = c
    /\ (\A t \in Threads : th[t].pc = "idle") =>
         (cb[c].alloc => (cb[c].ref = Cardinality(ConcHolders(c)) /\ cb[c].ref >= 1))

\* Reached: one thread is inside a copy assignment between two of its handles
\* on the block, having counted it up, while another thread has destroyed
\* its handle: the count is above the number of handles by the assignment's
\* new_ctrl.
C38_Witness ==
  /\ \E t \in Threads :
       /\ th[t].pc = "assign_release"
       /\ th[t].hs["a"].ctrl = 1
       /\ th[t].hs["b"].ctrl = 1
  /\ \E t \in Threads : ~th[t].hs["a"].live /\ ~th[t].hs["b"].live
  /\ cb[1].alloc
  /\ cb[1].ref = Cardinality(ConcHolders(1)) + 1

\* ---------------------------------------------------------------------------
\* The owners of a pool block.

\* The unique handles, released records and control blocks that hold the block
\* at address a, and the places of a on the free list.
RecordOwners(a) == {rb \in recs : rb.ptr = a}
CtrlOwners(a) == {c \in CtrlIds : cb[c].alloc /\ cb[c].ptr = a}
FreeListPlaces(a) == {i \in 1..Len(pool.free) : pool.free[i] = a}

\* Every owner of the block at a carries the pool's deleter, and a control
\* block that owns it is held by as many handles as its count says.
OwnersReturnToPool(a) ==
  /\ \A u \in UniqueOwners(a) : uq[u].deleter = PoolDeleter
  /\ \A rb \in RecordOwners(a) : rb.deleter = PoolDeleter
  /\ \A c \in CtrlOwners(a) :
       /\ cb[c].deleter = PoolDeleter
       /\ cb[c].ref = Cardinality(Holders(c))
       /\ cb[c].ref >= 1

\* The step is a reset, destruction or assignment-over of the only handle
\* that owned the block at address a.
LastOwnerGivesUp(a) ==
  \/ /\ last'.op \in {"unique_reset", "unique_dtor", "unique_move_assign"}
     /\ UniqueOwners(a) = {last'.dst}
  \/ /\ last'.op \in {"shared_reset", "shared_dtor", "shared_copy_assign",
                     "shared_move_assign"}
     /\ sh[last'.dst].live
     /\ Holders(sh[last'.dst].ctrl) = {last'.dst}
     /\ CtrlOwners(a) = {sh[last'.dst].ctrl}

\* C39: a block taken from the pool keeps the deleter that returns it to the
\* pool through moves, release() and re-adoption, the upgrade to a
\* shared_buffer and copies of that: at every moment the block is either on
\* the free list once, or has exactly one owner (a unique handle, a released
\* record or a control block with at least one handle) that carries the pool's
\* deleter; and the free list grows only by one block, in the step in which
\* the last owner of that block is reset, destroyed or assigned over.
C39_BlockReturnsOnceFromLastOwner ==
  /\ [](pool.live =>
          \A a \in BlockAddresses :
            /\ Cardinality(UniqueOwners(a)) + Cardinality(RecordOwners(a))
                 + Cardinality(CtrlOwners(a))
                 + Cardinality(FreeListPlaces(a)) = 1
            /\ OwnersReturnToPool(a))
  /\ [][(pool.live /\ pool'.live /\ Len(pool'.free) # Len(pool.free)
           /\ Len(pool'.free) >= Len(pool.free)) =>
          /\ Len(pool'.free) = Len(pool.free) + 1
          /\ SubSeq(pool'.free, 1, Len(pool.free)) = pool.free
          /\ LastOwnerGivesUp(pool'.free[Len(pool'.free)])]_vars

\* The destructor of the last shared_buffer that held a block of the pool has
\* called the deleter and the block is back on the free list: every block of
\* the pool is free, and no handle, record or control block holds one.
C39_Witness ==
  /\ pool.live
  /\ pool.block_count >= 1
  /\ last.op = "shared_dtor"
  /\ last.ran
  /\ ~sh[last.dst].live
  /\ Len(pool.free) = pool.block_count
  /\ \A a \in BlockAddresses :
       UniqueOwners(a) = {} /\ RecordOwners(a) = {} /\ CtrlOwners(a) = {}

\* ---------------------------------------------------------------------------
\* The layout of the arena.

\* The elements of block i, as offsets from data_ in elements.
BlockElements(i) == (i * pool.stride)..(i * pool.stride + pool.block_size - 1)

\* C40: for every element size, alignment and block_size > 0 the stride the
\* constructor computes is at least block_size, the element ranges of distinct
\* blocks do not overlap, and every block ends inside the arena of
\* stride * sizeof(T) * block_count bytes that was allocated.
C40_BlocksDisjointInsideArena ==
  pool.live =>
    /\ pool.stride >= pool.block_size
    /\ \A i \in 0..(pool.block_count - 1) :
         /\ \A j \in 0..(pool.block_count - 1) :
              i # j => BlockElements(i) \cap BlockElements(j) = {}
         /\ (i * pool.stride + pool.block_size) * pool.elem
              <= total_bytes(pool.stride, pool.elem, pool.block_count)

====
